---- MODULE Spec2Model ----
(***************************************************************************)
(* Model of the amplifier controller's decision core.                      *)
(*                                                                         *)
(* AmpControl (control.py): debounced, latching protection combined with   *)
(* the enable/reset push button.  One action, Update, is one call of       *)
(* AmpControl.update(telemetry, now_ms, reset_btn_level).                  *)
(*                                                                         *)
(* Telemetry values are whole volts / amps / watts / degrees C; the        *)
(* forward-power fraction 0.25 is kept as the exact rational 1/4.          *)
(***************************************************************************)
EXTENDS Integers, Sequences, FiniteSets, TLC

----------------------------------------------------------------------------
(* Bounds of the model *)

\* number of update calls explored from construction
MaxUpdates == 4

\* time that passes between two update calls (the loop sleeps 5 ms a pass)
Deltas == {10, 50, 5000}

----------------------------------------------------------------------------
(* Configuration: config.py *)

RESET_ACTIVE_LOW == TRUE
RESET_DEBOUNCE_MS == 10
PROTECT_VDRAIN_MAX_V == 35
PROTECT_IDRAIN_MAX_A == 9
\* PROTECT_FWD_MIN_FRACTION = 0.25 = FWD_MIN_FRACTION_NUM / FWD_MIN_FRACTION_DEN
FWD_MIN_FRACTION_NUM == 1
FWD_MIN_FRACTION_DEN == 4
PROTECT_MIN_I_FOR_EFF_A == 2
PROTECT_MIN_TOTAL_POWER_W == 10
PROTECT_TRIP_DEBOUNCE_MS == 50
PROTECT_TEMP_MAX_C == 40
PROTECT_THERM_DEBOUNCE_MS == 5000
BAND_BUTTON_ACTIVE_LOW == TRUE
BAND_BUTTON_DEBOUNCE_MS == 10
BAND_DEFAULT_INDEX == 0
\* len(BAND_GPIO_PINS)
NumBands == 3

----------------------------------------------------------------------------
(* utime: the millisecond tick counter wraps at TICKS_PERIOD; ticks_diff   *)
(* is the signed difference in [-TICKS_PERIOD/2, TICKS_PERIOD/2).          *)

TICKS_PERIOD == 1073741824

ticks_add(t, d) == (t + d) % TICKS_PERIOD

\* mutant: the raw counters are subtracted directly
ticks_diff_raw(a, b) == a - b

ticks_diff(a, b) ==
    ((a - b + TICKS_PERIOD \div 2) % TICKS_PERIOD) - TICKS_PERIOD \div 2

\* Python's None for an unset time stamp or an unseen button level
None == -1

\* the tick counter's value when the controller is constructed
StartTicks == {TICKS_PERIOD - 20}

----------------------------------------------------------------------------
(* Telemetry snapshots: a mapping from key to value, keys may be missing.  *)

Tel(v, i, c, p) == [vDrain |-> v, iDrain |-> i, vcc |-> c, pfwd_w |-> p]

WithTemp(t, c) ==
    [k \in DOMAIN t \cup {"temp_c"} |-> IF k = "temp_c" THEN c ELSE t[k]]

\* mutant: a missing key reads as 100
GetHundred(t, k, d) == IF k \in DOMAIN t THEN t[k] ELSE 100

\* telemetry.get(key, default)
Get(t, k, d) == IF k \in DOMAIN t THEN t[k] ELSE d

EmptyTel == [k \in {} |-> 0]

\* snapshots fed to update: every key missing; over current, no temperature;
\* over voltage and over current, at the temperature limit; forward power
\* low, below the temperature limit; at the electrical limits with overtemp
Snapshots ==
    { EmptyTel,
      Tel(28, 10, 28, 100),
      WithTemp(Tel(36, 10, 28, 100), 40),
      WithTemp(Tel(28, 2, 5, 2), 39),
      WithTemp(Tel(35, 9, 28, 63), 40) }

----------------------------------------------------------------------------
(* AmpControl *)

VARIABLES
    ctrl,           \* the AmpControl object's fields
    now,            \* tick counter value of the latest update call
    telemetry,      \* telemetry passed to the latest update call
    decision,       \* dict returned by the latest update call
    press_action,   \* step 3 of the latest update: "none", "toggle", "clear"
    latched,        \* step of the latest update that set the latch
    fault_gap,      \* an update evaluated no fault since _fault_start_ms was set
    therm_gap,      \* an update saw no overtemp since _therm_start_ms was set
    npresses,       \* number of press events so far: 0, 1, 2 or more
    oc_span,        \* ms covered by the current run of over-current updates,
                    \* counted up to the fast debounce duration
    nupdates,       \* number of update calls so far
    fr_tel,         \* _fault_reason: the telemetry it is applied to
    fr_out,         \* _fault_reason: the pair it returns
    fr_rec          \* last_reason recorded when that evaluation latches

\* the two debounced push buttons, fed the same observations
VARIABLES
    amp_btn,        \* an AmpControl object (its button fields are exercised)
    band,           \* a BandSwitch object: index and debounce fields
    btn_now,        \* time stamp of the latest observation
    btn_level,      \* raw level of the latest observation
    amp_event,      \* value AmpControl._debounced_button_event returned
    band_event,     \* value BandSwitch._debounced_press_event returned
    btn_phase,      \* "idle" until AmpControl's first event, "fired" after an
                    \* event, "released" once a later call has seen the level
                    \* inactive and unchanged for the debounce duration
    btn_held,       \* ms the observed level has stayed unchanged, counted up
                    \* to the debounce duration
    nobs            \* number of observations so far

btnVars == <<amp_btn, band, btn_now, btn_level, amp_event, band_event,
             btn_phase, btn_held, nobs>>

\* two AmpControl objects given the same calls, one with the wrapping tick
\* counter's stamps and one with stamps that never wrap
VARIABLES
    w_ctrl,         \* the object given wrapped stamps
    u_ctrl,         \* the object given unwrapped stamps
    w_now,          \* wrapped stamp of the latest update
    u_now,          \* unwrapped stamp of the latest update
    w_event,        \* pressed_event of the latest update, wrapped stamps
    u_event,        \* pressed_event of the latest update, unwrapped stamps
    w_latched,      \* the latest update set the latch, wrapped stamps
    u_latched,      \* the latest update set the latch, unwrapped stamps
    nwrap           \* number of update calls so far

wrapVars == <<w_ctrl, u_ctrl, w_now, u_now, w_event, u_event, w_latched,
              u_latched, nwrap>>

\* one update call on a telemetry mapping with any of its keys missing
VARIABLES
    tl_self,        \* the AmpControl object before the call
    tl_now,         \* the stamp of the call
    tl_tel,         \* the telemetry mapping of the call
    tl_out          \* what the call evaluated, left and returned

telVars == <<tl_self, tl_now, tl_tel, tl_out>>

\* the two PiecewiseLinear classes, built from the same lists and asked the
\* same query
VARIABLES
    pl_x,           \* the list x given to both constructors
    pl_y,           \* the list y given to both constructors
    pl_swr,         \* swr_calc.PiecewiseLinear(x, y): the object or the error
    pl_therm,       \* thermistor.PiecewiseLinear(x, y): the object or the error
    pl_q,           \* the query of the latest interp call
    pl_swr_out,     \* what swr_calc's interp returned
    pl_therm_out    \* what thermistor's interp returned or raised

plVars == <<pl_x, pl_y, pl_swr, pl_therm, pl_q, pl_swr_out, pl_therm_out>>

\* one call of swr_from_powers
VARIABLES
    sw_pfwd,        \* the argument pfwd_w of the latest call
    sw_prfl,        \* the argument prfl_w of the latest call
    sw_out          \* what the call returned or raised

swVars == <<sw_pfwd, sw_prfl, sw_out>>

\* one call of SWRCalc.read_avg_volts
VARIABLES
    av_rate,        \* self.data_rate, an ADS1115 data rate code
    av_window,      \* the argument window_ms
    av_vfwd,        \* the voltage the converter reads on the forward channel
    av_vrfl,        \* the voltage it reads on the reflected channel
    av_reads,       \* how many reads the call made of each channel
    av_out          \* what the call returned

avVars == <<av_rate, av_window, av_vfwd, av_vrfl, av_reads, av_out>>

\* the two calibration files and what the loaders make of them
VARIABLES
    ld_curve,       \* the power-curve file as first written, a list of lines
    ld_two,         \* the thermistor two-row file as first written
    ld_curve_file,  \* the power-curve file with the lines inserted so far
    ld_two_file,    \* the two-row file with the lines inserted so far
    ld_curve_out,   \* load_v_to_w_curve of the file: the object or the error
    ld_two_out,     \* load_two_row_table of the file: the lists or the error
    ld_inserted     \* what was inserted in the two-row file, and where

ldVars == <<ld_curve, ld_two, ld_curve_file, ld_two_file, ld_curve_out,
            ld_two_out, ld_inserted>>

\* a BandSwitch and its output pins
VARIABLES
    bo_self,        \* the BandSwitch object
    bo_pins,        \* the levels of the output pins, GP4 GP5 GP6
    bo_trace,       \* the pin levels after each write of the latest call
    bo_now,         \* the tick of the latest call
    bo_call,        \* the latest call
    bo_event,       \* the latest update saw a press event
    bo_off,         \* all_off ran after the outputs were last applied
    bo_calls        \* calls made so far

boVars == <<bo_self, bo_pins, bo_trace, bo_now, bo_call, bo_event, bo_off,
            bo_calls>>

\* a Keyer and its latest call
VARIABLES
    ky_self,        \* the Keyer object
    ky_now,         \* the tick of the latest call
    ky_level,       \* the raw level the latest call read
    ky_prev,        \* the raw level the call before it read
    ky_held,        \* for how long the calls have read that level
    ky_was,         \* is_active() before the latest call
    ky_ret,         \* what the latest update returned
    ky_cb,          \* the arguments of the callback's calls in that update
    ky_call,        \* the latest call
    ky_calls        \* updates made so far

kyVars == <<ky_self, ky_now, ky_level, ky_prev, ky_held, ky_was, ky_ret,
            ky_cb, ky_call, ky_calls>>

\* a Protection object (protection.py) and its latest update
VARIABLES
    pr_self,        \* the Protection object
    pr_now,         \* the tick of the latest update
    pr_ret,         \* the pair (shutdown, reason) the latest update returned
    pr_was,         \* tripped when the latest update began
    pr_latched,     \* the reason stored when the latch was last set
    pr_held,        \* for how long every update has had reset asserted,
                    \* None when the latest one had not
    pr_calls        \* updates made so far

prVars == <<pr_self, pr_now, pr_ret, pr_was, pr_latched, pr_held, pr_calls>>

\* the program of main.py from the protection pin's creation on
VARIABLES
    mn_pc,          \* the statement reached: "idle" before line 63, "pin"
                    \* after it, "booted" after line 100, "driven" after
                    \* line 118, "fast" after line 126, "rf" after line 135,
                    \* "thermal" after line 140, "raised" at line 143
    mn_out,         \* the level of the protection pin
    mn_ctrl,        \* ctrl, the AmpControl object
    mn_bands,       \* bands, the BandSwitch object
    mn_state,       \* state, the latest decision with band_idx
    mn_latest,      \* latest, the telemetry snapshot
    mn_now,         \* now of the pass
    mn_t,           \* t_fast, t_swr and t_therm
    mn_acquired,    \* telemetry read since the pass began
    mn_passes       \* passes begun

mnVars == <<mn_pc, mn_out, mn_ctrl, mn_bands, mn_state, mn_latest, mn_now,
            mn_t, mn_acquired, mn_passes>>

\* an AmpControl object under faults that persist (control.py)
VARIABLES
    ho_ctrl,        \* the AmpControl object
    ho_now,         \* the tick of the latest update
    ho_decision,    \* the dict the latest update returned
    ho_fault,       \* for how long every update has evaluated an
                    \* electrical fault, None when the latest one did not
    ho_therm,       \* the same for overtemp
    ho_cleared,     \* a press event has cleared the latch since the
                    \* conditions of the latest update began to hold
    ho_calls        \* updates made so far

hoVars == <<ho_ctrl, ho_now, ho_decision, ho_fault, ho_therm, ho_cleared,
            ho_calls>>

\* an AmpControl object under electrical faults of changing kind
\* (control.py)
VARIABLES
    sh_ctrl,        \* the AmpControl object
    sh_now,         \* the tick of the latest update
    sh_decision,    \* the dict the latest update returned
    sh_kind,        \* the reason _fault_reason gave in the latest update
    sh_prev,        \* the reason it gave in the update before
    sh_was,         \* tripped when the latest update began
    sh_start,       \* _fault_start_ms when the latest update began
    sh_tstart,      \* _therm_start_ms when the latest update began
    sh_hot,         \* overtemp as the latest update evaluated it
    sh_stored,      \* last_reason after step 1 of the latest update
    sh_latched,     \* the step of the latest update that set the latch
    sh_event,       \* the latest update had a press event
    sh_calls        \* updates made so far

shVars == <<sh_ctrl, sh_now, sh_decision, sh_kind, sh_prev, sh_was,
            sh_start, sh_tstart, sh_hot, sh_stored, sh_latched, sh_event,
            sh_calls>>

\* an AmpControl object updated for ever, from some update on with an
\* electrical fault in every snapshot and no press event (control.py)
VARIABLES
    lv_ctrl,        \* the AmpControl object
    lv_now,         \* the tick of the latest update
    lv_decision,    \* the dict the latest update returned
    lv_held,        \* the fault has begun to hold on every update
    lv_span,        \* time since the first such update, None before it
    lv_latches,     \* such updates in which the latch was set
    lv_after,       \* such updates begun with the latch set
    lv_calls        \* updates made before the fault began to hold

lvVars == <<lv_ctrl, lv_now, lv_decision, lv_held, lv_span, lv_latches,
            lv_after, lv_calls>>

\* the variables of the parts added after the interpolators
extVars == <<swVars, avVars, ldVars, boVars, kyVars, prVars, mnVars, hoVars, shVars, lvVars>>

vars == <<ctrl, now, telemetry, decision, press_action, latched, fault_gap,
          therm_gap, npresses, oc_span, nupdates, fr_tel, fr_out, fr_rec,
          btnVars, wrapVars, telVars, plVars, extVars>>

ctrlVars == <<ctrl, now, telemetry, decision, press_action, latched,
              fault_gap, therm_gap, npresses, oc_span, nupdates>>

frVars == <<fr_tel, fr_out, fr_rec>>

\* the variables of AmpControl, the debouncers and the interpolators
oldVars == <<ctrlVars, frVars, btnVars, wrapVars, telVars, plVars>>

\* all the variables but those of one added part
notSw == <<oldVars, avVars, ldVars, boVars, kyVars, prVars, mnVars, hoVars, shVars, lvVars>>

notAv == <<oldVars, swVars, ldVars, boVars, kyVars, prVars, mnVars, hoVars, shVars, lvVars>>

notLd == <<oldVars, swVars, avVars, boVars, kyVars, prVars, mnVars, hoVars, shVars, lvVars>>

notBo == <<oldVars, swVars, avVars, ldVars, kyVars, prVars, mnVars, hoVars, shVars, lvVars>>

notKy == <<oldVars, swVars, avVars, ldVars, boVars, prVars, mnVars, hoVars, shVars, lvVars>>

notPr == <<oldVars, swVars, avVars, ldVars, boVars, kyVars, mnVars, hoVars, shVars, lvVars>>

notMn == <<oldVars, swVars, avVars, ldVars, boVars, kyVars, prVars, hoVars, shVars, lvVars>>

notHo == <<oldVars, swVars, avVars, ldVars, boVars, kyVars, prVars, mnVars, shVars, lvVars>>

notSh == <<oldVars, swVars, avVars, ldVars, boVars, kyVars, prVars, mnVars, hoVars, lvVars>>

notLv == <<oldVars, swVars, avVars, ldVars, boVars, kyVars, prVars, mnVars, hoVars, shVars>>

\* mutant: the amplifier is enabled at boot
AmpControlInitEnabled ==
    [ therm_start_ms      |-> None,
      amp_enabled         |-> TRUE,
      tripped             |-> FALSE,
      last_reason         |-> "OK",
      fault_start_ms      |-> None,
      btn_last_level      |-> None,
      btn_last_change_ms  |-> None,
      btn_press_consumed  |-> FALSE ]

\* AmpControl.__init__
AmpControlInit ==
    [ therm_start_ms      |-> None,
      amp_enabled         |-> FALSE,
      tripped             |-> FALSE,
      last_reason         |-> "OK",
      fault_start_ms      |-> None,
      btn_last_level      |-> None,
      btn_last_change_ms  |-> None,
      btn_press_consumed  |-> FALSE ]

\* AmpControl._btn_is_pressed
btn_is_pressed(level) == IF RESET_ACTIVE_LOW THEN level = 0 ELSE level = 1

\* mutant: the drain current is tested before the drain voltage
FaultReasonCurrentFirst(tel) ==
    LET v_drain == Get(tel, "vDrain", 0)
        i_drain == Get(tel, "iDrain", 0)
        vcc     == Get(tel, "vcc", 0)
        pfwd    == Get(tel, "pfwd_w", 0)
        total_p == vcc * i_drain
    IN  IF i_drain > PROTECT_IDRAIN_MAX_A
          THEN [is_fault |-> TRUE, reason |-> "IDRAIN_OC"]
        ELSE IF v_drain > PROTECT_VDRAIN_MAX_V
          THEN [is_fault |-> TRUE, reason |-> "VDRAIN_OV"]
        ELSE IF /\ i_drain >= PROTECT_MIN_I_FOR_EFF_A
                /\ total_p >= PROTECT_MIN_TOTAL_POWER_W
                /\ pfwd * FWD_MIN_FRACTION_DEN < FWD_MIN_FRACTION_NUM * total_p
          THEN [is_fault |-> TRUE, reason |-> "FWD_LOW_VS_VI"]
        ELSE [is_fault |-> FALSE, reason |-> "OK"]

\* mutant: the forward power is compared with <= instead of <
FaultReasonInclusive(tel) ==
    LET v_drain == Get(tel, "vDrain", 0)
        i_drain == Get(tel, "iDrain", 0)
        vcc     == Get(tel, "vcc", 0)
        pfwd    == Get(tel, "pfwd_w", 0)
        total_p == vcc * i_drain
    IN  IF v_drain > PROTECT_VDRAIN_MAX_V
          THEN [is_fault |-> TRUE, reason |-> "VDRAIN_OV"]
        ELSE IF i_drain > PROTECT_IDRAIN_MAX_A
          THEN [is_fault |-> TRUE, reason |-> "IDRAIN_OC"]
        ELSE IF /\ i_drain >= PROTECT_MIN_I_FOR_EFF_A
                /\ total_p >= PROTECT_MIN_TOTAL_POWER_W
                /\ pfwd * FWD_MIN_FRACTION_DEN <= FWD_MIN_FRACTION_NUM * total_p
          THEN [is_fault |-> TRUE, reason |-> "FWD_LOW_VS_VI"]
        ELSE [is_fault |-> FALSE, reason |-> "OK"]

\* AmpControl._fault_reason
FaultReason(tel) ==
    LET v_drain == Get(tel, "vDrain", 0)
        i_drain == Get(tel, "iDrain", 0)
        vcc     == Get(tel, "vcc", 0)
        pfwd    == Get(tel, "pfwd_w", 0)
        total_p == vcc * i_drain
    IN  IF v_drain > PROTECT_VDRAIN_MAX_V
          THEN [is_fault |-> TRUE, reason |-> "VDRAIN_OV"]
        ELSE IF i_drain > PROTECT_IDRAIN_MAX_A
          THEN [is_fault |-> TRUE, reason |-> "IDRAIN_OC"]
        ELSE IF /\ i_drain >= PROTECT_MIN_I_FOR_EFF_A
                /\ total_p >= PROTECT_MIN_TOTAL_POWER_W
                \* pfwd < PROTECT_FWD_MIN_FRACTION * total_p
                /\ pfwd * FWD_MIN_FRACTION_DEN < FWD_MIN_FRACTION_NUM * total_p
          THEN [is_fault |-> TRUE, reason |-> "FWD_LOW_VS_VI"]
        ELSE [is_fault |-> FALSE, reason |-> "OK"]

\* update: overtemp = (temp_c is not None) and (temp_c >= PROTECT_TEMP_MAX_C)
Overtemp(tel) ==
    /\ "temp_c" \in DOMAIN tel
    /\ tel["temp_c"] >= PROTECT_TEMP_MAX_C

\* mutant: the latch is dropped as soon as no fault is evaluated
FastStepAutoClear(self, fr, now_ms) ==
    IF ~self.tripped
    THEN IF fr.is_fault
         THEN IF self.fault_start_ms = None
              THEN [self EXCEPT !.fault_start_ms = now_ms]
              ELSE IF ticks_diff(now_ms, self.fault_start_ms)
                          >= PROTECT_TRIP_DEBOUNCE_MS
                   THEN [self EXCEPT !.tripped = TRUE,
                                     !.last_reason = fr.reason,
                                     !.amp_enabled = FALSE]
                   ELSE self
         ELSE [self EXCEPT !.fault_start_ms = None]
    ELSE IF fr.is_fault
         THEN self
         ELSE [self EXCEPT !.tripped = FALSE,
                           !.last_reason = "OK",
                           !.fault_start_ms = None]

\* mutant: amp_enabled is cleared when the fast timer is started
FastStepEarlyOff(self, fr, now_ms) ==
    IF ~self.tripped
    THEN IF fr.is_fault
         THEN IF self.fault_start_ms = None
              THEN [self EXCEPT !.fault_start_ms = now_ms,
                                !.amp_enabled = FALSE]
              ELSE IF ticks_diff(now_ms, self.fault_start_ms)
                          >= PROTECT_TRIP_DEBOUNCE_MS
                   THEN [self EXCEPT !.tripped = TRUE,
                                     !.last_reason = fr.reason,
                                     !.amp_enabled = FALSE]
                   ELSE self
         ELSE [self EXCEPT !.fault_start_ms = None]
    ELSE self

\* mutant: an update without a fault leaves the fast timer running
FastStepNoReset(self, fr, now_ms) ==
    IF ~self.tripped
    THEN IF fr.is_fault
         THEN IF self.fault_start_ms = None
              THEN [self EXCEPT !.fault_start_ms = now_ms]
              ELSE IF ticks_diff(now_ms, self.fault_start_ms)
                          >= PROTECT_TRIP_DEBOUNCE_MS
                   THEN [self EXCEPT !.tripped = TRUE,
                                     !.last_reason = fr.reason,
                                     !.amp_enabled = FALSE]
                   ELSE self
         ELSE self
    ELSE self

\* mutant: the elapsed time is taken with its operands exchanged
FastStepReversedDiff(self, fr, now_ms) ==
    IF ~self.tripped
    THEN IF fr.is_fault
         THEN IF self.fault_start_ms = None
              THEN [self EXCEPT !.fault_start_ms = now_ms]
              ELSE IF ticks_diff(self.fault_start_ms, now_ms)
                          >= PROTECT_TRIP_DEBOUNCE_MS
                   THEN [self EXCEPT !.tripped = TRUE,
                                     !.last_reason = fr.reason,
                                     !.amp_enabled = FALSE]
                   ELSE self
         ELSE [self EXCEPT !.fault_start_ms = None]
    ELSE self

\* mutant: a fault met before the debounce time has passed restarts the
\* timer
FastStepRestart(self, fr, now_ms) ==
    IF ~self.tripped
    THEN IF fr.is_fault
         THEN IF self.fault_start_ms = None
              THEN [self EXCEPT !.fault_start_ms = now_ms]
              ELSE IF ticks_diff(now_ms, self.fault_start_ms)
                          >= PROTECT_TRIP_DEBOUNCE_MS
                   THEN [self EXCEPT !.tripped = TRUE,
                                     !.last_reason = fr.reason,
                                     !.amp_enabled = FALSE]
                   ELSE [self EXCEPT !.fault_start_ms = now_ms]
         ELSE [self EXCEPT !.fault_start_ms = None]
    ELSE self

\* mutant: the electrical trip leaves amp_enabled as it was
FastStepKeepEnabled(self, fr, now_ms) ==
    IF ~self.tripped
    THEN IF fr.is_fault
         THEN IF self.fault_start_ms = None
              THEN [self EXCEPT !.fault_start_ms = now_ms]
              ELSE IF ticks_diff(now_ms, self.fault_start_ms)
                          >= PROTECT_TRIP_DEBOUNCE_MS
                   THEN [self EXCEPT !.tripped = TRUE,
                                     !.last_reason = fr.reason]
                   ELSE self
         ELSE [self EXCEPT !.fault_start_ms = None]
    ELSE self

\* update, step 1: electrical protection (fast debounce), latch on trip
FastStep(self, fr, now_ms) ==
    IF ~self.tripped
    THEN IF fr.is_fault
         THEN IF self.fault_start_ms = None
              THEN [self EXCEPT !.fault_start_ms = now_ms]
              ELSE IF ticks_diff(now_ms, self.fault_start_ms)
                          >= PROTECT_TRIP_DEBOUNCE_MS
                   THEN [self EXCEPT !.tripped = TRUE,
                                     !.last_reason = fr.reason,
                                     !.amp_enabled = FALSE]
                   ELSE self
         ELSE [self EXCEPT !.fault_start_ms = None]
    ELSE self

\* mutant: sustained overtemp is latched over a latch already set
ThermStepOverrides(self, overtemp, now_ms) ==
    IF overtemp
    THEN IF self.therm_start_ms = None
         THEN IF self.tripped THEN self
              ELSE [self EXCEPT !.therm_start_ms = now_ms]
         ELSE IF ticks_diff(now_ms, self.therm_start_ms)
                     >= PROTECT_THERM_DEBOUNCE_MS
              THEN [self EXCEPT !.tripped = TRUE,
                                !.last_reason = "THERM_OT",
                                !.amp_enabled = FALSE]
              ELSE IF self.tripped
                   THEN [self EXCEPT !.therm_start_ms = None]
                   ELSE self
    ELSE [self EXCEPT !.therm_start_ms = None]

\* mutant: an update without overtemp leaves the thermal timer running
ThermStepNoReset(self, overtemp, now_ms) ==
    IF ~self.tripped
    THEN IF overtemp
         THEN IF self.therm_start_ms = None
              THEN [self EXCEPT !.therm_start_ms = now_ms]
              ELSE IF ticks_diff(now_ms, self.therm_start_ms)
                          >= PROTECT_THERM_DEBOUNCE_MS
                   THEN [self EXCEPT !.tripped = TRUE,
                                     !.last_reason = "THERM_OT",
                                     !.amp_enabled = FALSE]
                   ELSE self
         ELSE self
    ELSE [self EXCEPT !.therm_start_ms = None]

\* update, step 2: thermal protection (slow debounce)
ThermStep(self, overtemp, now_ms) ==
    IF ~self.tripped
    THEN IF overtemp
         THEN IF self.therm_start_ms = None
              THEN [self EXCEPT !.therm_start_ms = now_ms]
              ELSE IF ticks_diff(now_ms, self.therm_start_ms)
                          >= PROTECT_THERM_DEBOUNCE_MS
                   THEN [self EXCEPT !.tripped = TRUE,
                                     !.last_reason = "THERM_OT",
                                     !.amp_enabled = FALSE]
                   ELSE self
         ELSE [self EXCEPT !.therm_start_ms = None]
    ELSE [self EXCEPT !.therm_start_ms = None]

\* AmpControl._debounced_button_event: the returned value
ButtonEvent(self, now_ms, level) ==
    /\ self.btn_last_level # None
    /\ level = self.btn_last_level
    /\ ticks_diff(now_ms, self.btn_last_change_ms) >= RESET_DEBOUNCE_MS
    /\ btn_is_pressed(level)
    /\ ~self.btn_press_consumed

\* mutant: a level change leaves the one-shot flag as it is
ButtonStepKeepConsumed(self, now_ms, level) ==
    IF self.btn_last_level = None
    THEN [self EXCEPT !.btn_last_level = level,
                      !.btn_last_change_ms = now_ms]
    ELSE IF level # self.btn_last_level
    THEN [self EXCEPT !.btn_last_level = level,
                      !.btn_last_change_ms = now_ms]
    ELSE IF ticks_diff(now_ms, self.btn_last_change_ms) < RESET_DEBOUNCE_MS
    THEN self
    ELSE IF btn_is_pressed(level) /\ ~self.btn_press_consumed
    THEN [self EXCEPT !.btn_press_consumed = TRUE]
    ELSE IF ~btn_is_pressed(level)
    THEN [self EXCEPT !.btn_press_consumed = FALSE]
    ELSE self

\* AmpControl._debounced_button_event: the object after the call
ButtonStep(self, now_ms, level) ==
    IF self.btn_last_level = None
    THEN [self EXCEPT !.btn_last_level = level,
                      !.btn_last_change_ms = now_ms]
    ELSE IF level # self.btn_last_level
    THEN [self EXCEPT !.btn_last_level = level,
                      !.btn_last_change_ms = now_ms,
                      !.btn_press_consumed = FALSE]
    ELSE IF ticks_diff(now_ms, self.btn_last_change_ms) < RESET_DEBOUNCE_MS
    THEN self
    ELSE IF btn_is_pressed(level) /\ ~self.btn_press_consumed
    THEN [self EXCEPT !.btn_press_consumed = TRUE]
    ELSE IF ~btn_is_pressed(level)
    THEN [self EXCEPT !.btn_press_consumed = FALSE]
    ELSE self

\* mutant: the press that clears the latch also toggles amp_enabled
PressStepClearAndToggle(self, event) ==
    IF event
    THEN IF self.tripped
         THEN [self EXCEPT !.tripped = FALSE,
                           !.last_reason = "OK",
                           !.fault_start_ms = None,
                           !.therm_start_ms = None,
                           !.amp_enabled = ~self.amp_enabled]
         ELSE [self EXCEPT !.amp_enabled = ~self.amp_enabled]
    ELSE self

\* mutant: clearing the latch leaves last_reason as it is
PressStepKeepReason(self, event) ==
    IF event
    THEN IF self.tripped
         THEN [self EXCEPT !.tripped = FALSE,
                           !.fault_start_ms = None,
                           !.therm_start_ms = None,
                           !.amp_enabled = FALSE]
         ELSE [self EXCEPT !.amp_enabled = ~self.amp_enabled]
    ELSE self

\* update, step 3: handle the button press event
PressStep(self, event) ==
    IF event
    THEN IF self.tripped
         THEN [self EXCEPT !.tripped = FALSE,
                           !.last_reason = "OK",
                           !.fault_start_ms = None,
                           !.therm_start_ms = None,
                           !.amp_enabled = FALSE]
         ELSE [self EXCEPT !.amp_enabled = ~self.amp_enabled]
    ELSE self

\* mutant: the enable flag is used with the wrong polarity
DisableInverted(amp_enabled, tripped) == amp_enabled \/ tripped

\* update, step 4: the output disable state
Disable(amp_enabled, tripped) == (~amp_enabled) \/ tripped

\* update: the returned dict
Decision(self) ==
    [ disable     |-> Disable(self.amp_enabled, self.tripped),
      amp_enabled |-> self.amp_enabled,
      tripped     |-> self.tripped,
      reason      |-> IF self.tripped THEN self.last_reason ELSE "OK" ]

NoDecision == [reason |-> "none"]

Min(a, b) == IF a <= b THEN a ELSE b

NoResult == [reason |-> "none"]

\* drain current above its max while drain voltage is not above its max
OverCurrentOnly(tel) ==
    /\ Get(tel, "iDrain", 0) > PROTECT_IDRAIN_MAX_A
    /\ ~(Get(tel, "vDrain", 0) > PROTECT_VDRAIN_MAX_V)

----------------------------------------------------------------------------
(* BandSwitch (band_switch.py): the band button's debounce and the index   *)

\* BandSwitch.__init__: the constructor reads the pin and the tick counter
BandSwitchInit(level, now_ms) ==
    [ index          |-> BAND_DEFAULT_INDEX % NumBands,
      last_level     |-> level,
      last_change_ms |-> now_ms,
      press_consumed |-> FALSE ]

\* BandSwitch._btn_is_pressed
band_btn_is_pressed(level) ==
    IF BAND_BUTTON_ACTIVE_LOW THEN level = 0 ELSE level = 1

\* BandSwitch._debounced_press_event: the returned value
BandPressEvent(self, now_ms, level) ==
    /\ level = self.last_level
    /\ ticks_diff(now_ms, self.last_change_ms) >= BAND_BUTTON_DEBOUNCE_MS
    /\ band_btn_is_pressed(level)
    /\ ~self.press_consumed

\* BandSwitch._debounced_press_event: the object after the call
BandPressStep(self, now_ms, level) ==
    IF level # self.last_level
    THEN [self EXCEPT !.last_level = level,
                      !.last_change_ms = now_ms]
    ELSE IF ticks_diff(now_ms, self.last_change_ms) < BAND_BUTTON_DEBOUNCE_MS
    THEN self
    ELSE IF band_btn_is_pressed(level) /\ ~self.press_consumed
    THEN [self EXCEPT !.press_consumed = TRUE]
    ELSE IF ~band_btn_is_pressed(level)
    THEN [self EXCEPT !.press_consumed = FALSE]
    ELSE self

\* BandSwitch.update: the object after the call, the pin reading `level`
BandUpdate(self, now_ms, level) ==
    LET s == BandPressStep(self, now_ms, level)
    IN  IF BandPressEvent(self, now_ms, level)
        THEN [s EXCEPT !.index = (s.index + 1) % NumBands]
        ELSE s

----------------------------------------------------------------------------
(* BandSwitch outputs (band_switch.py).  The pins are the list of their    *)
(* levels, 0 for LOW and 1 for HIGH.                                       *)

\* the band attributes config.py defines
BandConfig ==
    [ BAND_ACTIVE_LOW         |-> TRUE,
      BAND_BUTTON_ACTIVE_LOW  |-> BAND_BUTTON_ACTIVE_LOW,
      BAND_BUTTON_DEBOUNCE_MS |-> BAND_BUTTON_DEBOUNCE_MS,
      BAND_DEFAULT_INDEX      |-> BAND_DEFAULT_INDEX ]

\* getattr(cfg, name, default)
getattr(cfg, name, default) ==
    IF name \in DOMAIN cfg THEN cfg[name] ELSE default

\* BandSwitch._drive_pin on the i-th pin: the pins after the write
drive_pin(pins, i, on) ==
    LET active_high == getattr(BandConfig, "BAND_ACTIVE_HIGH", TRUE)
    IN  IF active_high
        THEN [pins EXCEPT ![i] = IF on THEN 1 ELSE 0]
        ELSE [pins EXCEPT ![i] = IF on THEN 0 ELSE 1]

\* for p in self.pins: self._drive_pin(p, on=False), from the i-th pin on:
\* the pins after each write
RECURSIVE all_off_from(_, _)
all_off_from(pins, i) ==
    IF i > Len(pins) THEN <<>>
    ELSE LET next == drive_pin(pins, i, FALSE)
         IN  <<next>> \o all_off_from(next, i + 1)

\* BandSwitch.all_off: the pins after each write
all_off(pins) == all_off_from(pins, 1)

\* the pins a list of writes leaves
After(pins, writes) ==
    IF writes = <<>> THEN pins ELSE writes[Len(writes)]

\* mutant: the selected output is driven ON first, the others OFF after it
apply_outputs_on_first(pins, index) ==
    LET first == drive_pin(pins, index + 1, TRUE)
        rest  == all_off(first)
    IN  <<first>> \o rest \o <<drive_pin(After(first, rest), index + 1, TRUE)>>

\* BandSwitch._apply_outputs with self.index = index: the pins after each
\* write
apply_outputs(pins, index) ==
    LET off == all_off(pins)
    IN  off \o <<drive_pin(After(pins, off), index + 1, TRUE)>>

\* BandSwitch.set_index(idx): the index it stores
set_index(idx) == idx % NumBands

----------------------------------------------------------------------------
(* Keyer (keyer.py).  The callback is "none" for None, "ok" for a function *)
(* that returns and "raises" for one that raises an Exception.             *)

\* Keyer.__init__: the constructor reads the pin and the tick counter
KeyerInit(active_low, debounce_ms, callback, level, now_ms) ==
    [ active_low     |-> active_low,
      debounce_ms    |-> debounce_ms,
      callback       |-> callback,
      current_state  |-> FALSE,
      last_level     |-> level,
      last_change_ms |-> now_ms,
      stable         |-> FALSE ]

\* Keyer._is_active_level
is_active_level(self, level) ==
    IF self.active_low THEN level = 0 ELSE level = 1

\* Keyer.is_active
is_active(self) == self.current_state

\* mutant: an edge does not restart the debounce interval
KeyerUpdateNoRestart(self, now_ms, level) ==
    IF level # self.last_level
    THEN [ self |-> [self EXCEPT !.last_level = level, !.stable = FALSE],
           ret  |-> FALSE,
           cb   |-> <<>> ]
    ELSE IF ~self.stable
            /\ ticks_diff(now_ms, self.last_change_ms) >= self.debounce_ms
    THEN LET new_state == is_active_level(self, level)
             changed   == new_state # self.current_state
         IN  [ self |-> [self EXCEPT !.stable = TRUE,
                                     !.current_state = new_state],
               ret  |-> changed,
               cb   |-> IF changed /\ self.callback # "none"
                        THEN <<new_state>> ELSE <<>> ]
    ELSE [self |-> self, ret |-> FALSE, cb |-> <<>>]

\* Keyer.update(now_ms) with the pin at level: the object after the call,
\* the value returned and the arguments of the callback's calls
KeyerUpdate(self, now_ms, level) ==
    IF level # self.last_level
    THEN [ self |-> [self EXCEPT !.last_level = level,
                                 !.last_change_ms = now_ms,
                                 !.stable = FALSE],
           ret  |-> FALSE,
           cb   |-> <<>> ]
    ELSE IF ~self.stable
            /\ ticks_diff(now_ms, self.last_change_ms) >= self.debounce_ms
    THEN LET new_state == is_active_level(self, level)
             changed   == new_state # self.current_state
         IN  [ self |-> [self EXCEPT !.stable = TRUE,
                                     !.current_state = new_state],
               ret  |-> changed,
               cb   |-> IF changed /\ self.callback # "none"
                        THEN <<new_state>> ELSE <<>> ]
    ELSE [self |-> self, ret |-> FALSE, cb |-> <<>>]

----------------------------------------------------------------------------
(* Protection (protection.py) *)

\* Protection.__init__
ProtectionInit ==
    [ tripped        |-> FALSE,
      last_reason    |-> "OK",
      fault_start_ms |-> None,
      reset_start_ms |-> None ]

\* Protection._fault_reason
ProtFaultReason(tel) ==
    LET v_drain == Get(tel, "vDrain", 0)
        i_drain == Get(tel, "iDrain", 0)
        vcc     == Get(tel, "vcc", 0)
        pfwd    == Get(tel, "pfwd_w", 0)
        total_p == vcc * i_drain
    IN  IF v_drain > PROTECT_VDRAIN_MAX_V
          THEN [is_fault |-> TRUE, reason |-> "VDRAIN_OV"]
        ELSE IF i_drain > PROTECT_IDRAIN_MAX_A
          THEN [is_fault |-> TRUE, reason |-> "IDRAIN_OC"]
        ELSE IF /\ i_drain >= PROTECT_MIN_I_FOR_EFF_A
                /\ total_p >= PROTECT_MIN_TOTAL_POWER_W
                \* pfwd < PROTECT_FWD_MIN_FRACTION * total_p
                /\ pfwd * FWD_MIN_FRACTION_DEN < FWD_MIN_FRACTION_NUM * total_p
          THEN [is_fault |-> TRUE, reason |-> "FWD_LOW_VS_VI"]
        ELSE [is_fault |-> FALSE, reason |-> "OK"]

\* Protection._reset_is_asserted
reset_is_asserted(reset_level) ==
    IF RESET_ACTIVE_LOW THEN reset_level = 0 ELSE reset_level = 1

\* Protection.update, the branch taken when tripped: the object after it
ProtResetStep(self, now_ms, reset_level) ==
    IF reset_is_asserted(reset_level)
    THEN IF self.reset_start_ms = None
         THEN [self EXCEPT !.reset_start_ms = now_ms]
         ELSE IF ticks_diff(now_ms, self.reset_start_ms) >= RESET_DEBOUNCE_MS
              THEN [self EXCEPT !.tripped = FALSE,
                                !.last_reason = "OK",
                                !.fault_start_ms = None,
                                !.reset_start_ms = None]
              ELSE self
    ELSE [self EXCEPT !.reset_start_ms = None]

\* Protection.update, the branch taken when not tripped: the object after it
ProtFaultStep(self, fr, now_ms) ==
    IF fr.is_fault
    THEN IF self.fault_start_ms = None
         THEN [self EXCEPT !.fault_start_ms = now_ms]
         ELSE IF ticks_diff(now_ms, self.fault_start_ms)
                     >= PROTECT_TRIP_DEBOUNCE_MS
              THEN [self EXCEPT !.tripped = TRUE, !.last_reason = fr.reason]
              ELSE self
    ELSE [self EXCEPT !.fault_start_ms = None]

\* Protection.update(telemetry, now_ms, reset_level): the object after the
\* call and the pair returned
ProtUpdate(self, tel, now_ms, reset_level) ==
    IF self.tripped
    THEN LET s == ProtResetStep(self, now_ms, reset_level)
         IN  [self |-> s, ret |-> <<TRUE, s.last_reason>>]
    ELSE LET s == ProtFaultStep(self, ProtFaultReason(tel), now_ms)
         IN  [ self |-> s,
               ret  |-> <<s.tripped, IF s.tripped THEN s.last_reason ELSE "OK">> ]

----------------------------------------------------------------------------
(* Floating point: Python's float is binary floating point rounded to the  *)
(* nearest value, ties to the even significand.  A float is the pair       *)
(* <<m, e>> standing for m * 2^e, with FloatBits significant bits:         *)
(* 2^(FloatBits-1) <= |m| < 2^FloatBits, or <<0, 0>> for zero.  The         *)
(* exponent is not bounded (no overflow or underflow).                     *)

\* significant bits of a float
FloatBits == 3

Abs(n) == IF n < 0 THEN -n ELSE n

Sgn(n) == IF n < 0 THEN -1 ELSE 1

\* number of bits of the natural number n
RECURSIVE BitLen(_)
BitLen(n) == IF n = 0 THEN 0 ELSE 1 + BitLen(n \div 2)

\* n / 2^k rounded to the nearest integer, ties to even (k >= 1)
RoundShift(n, k) ==
    LET q    == n \div (2^k)
        r    == n % (2^k)
        half == 2^(k - 1)
    IN  IF r > half \/ (r = half /\ q % 2 = 1) THEN q + 1 ELSE q

\* the float nearest to s * n * 2^e, for a sign s and a natural number n
Fl(s, n, e) ==
    IF n = 0 THEN <<0, 0>>
    ELSE LET len == BitLen(n)
         IN  IF len <= FloatBits
             THEN <<s * n * 2^(FloatBits - len), e - (FloatBits - len)>>
             ELSE LET k == len - FloatBits
                      q == RoundShift(n, k)
                  IN  IF q = 2^FloatBits
                      THEN <<s * 2^(FloatBits - 1), e + k + 1>>
                      ELSE <<s * q, e + k>>

\* float(n) for an integer n
FromInt(n) == Fl(Sgn(n), Abs(n), 0)

\* the exception a float division by zero raises
ZeroDivisionError == <<0, 1>>

\* a + b
FAdd(a, b) ==
    LET e == Min(a[2], b[2])
        m == a[1] * 2^(a[2] - e) + b[1] * 2^(b[2] - e)
    IN  Fl(Sgn(m), Abs(m), e)

\* a - b
FSub(a, b) == FAdd(a, <<-b[1], b[2]>>)

\* a * b
FMul(a, b) == Fl(Sgn(a[1]) * Sgn(b[1]), Abs(a[1] * b[1]), a[2] + b[2])

\* a / b: the quotient of the significands is taken with two more bits than
\* a float has and one bit that tells whether anything is left over
FDiv(a, b) ==
    IF b[1] = 0 THEN ZeroDivisionError
    ELSE LET n      == Abs(a[1]) * 2^(FloatBits + 2)
             d      == Abs(b[1])
             sticky == IF n % d = 0 THEN 0 ELSE 1
         IN  Fl(Sgn(a[1]) * Sgn(b[1]), 2 * (n \div d) + sticky,
                a[2] - b[2] - FloatBits - 3)

\* a <= b
FLe(a, b) ==
    LET e == Min(a[2], b[2])
    IN  a[1] * 2^(a[2] - e) <= b[1] * 2^(b[2] - e)

\* a < b
FLt(a, b) == ~FLe(b, a)

\* float("inf")
Inf == <<0, 2>>

\* the exception math.sqrt raises for a negative argument
MathDomainError == <<0, 3>>

\* v is an exception, not a value
Raised(v) == v \in {ZeroDivisionError, MathDomainError}

\* the integer part of the square root of the natural number n
RECURSIVE ISqrt(_)
ISqrt(n) ==
    IF n < 2 THEN n
    ELSE LET r == 2 * ISqrt(n \div 4)
         IN  IF (r + 1) * (r + 1) <= n THEN r + 1 ELSE r

\* math.sqrt(a): the root of the significand, scaled to an even exponent, is
\* taken with FloatBits + 1 more bits and one bit that tells whether
\* anything is left over
FSqrt(a) ==
    IF a[1] < 0 THEN MathDomainError
    ELSE LET odd    == a[2] % 2 = 1
             m      == IF odd THEN 2 * a[1] ELSE a[1]
             e      == IF odd THEN a[2] - 1 ELSE a[2]
             n      == m * 4^(FloatBits + 1)
             r      == ISqrt(n)
             sticky == IF r * r = n THEN 0 ELSE 1
         IN  Fl(1, 2 * r + sticky, (e \div 2) - FloatBits - 2)

----------------------------------------------------------------------------
(* PiecewiseLinear (swr_calc.py and thermistor.py).  An object is a record *)
(* with the lists x and y; ok is FALSE for a constructor that raised.      *)

\* raise ValueError(...)
ValueError == [ok |-> FALSE, x |-> <<>>, y |-> <<>>]

\* zip(x, y) for lists of the same length
Zip(x, y) == [i \in 1..Len(x) |-> <<x[i], y[i]>>]

\* mutant: points with the same x come out in reverse order
RECURSIVE SortedReverseTies(_)
SortedReverseTies(pairs) ==
    IF pairs = <<>> THEN <<>>
    ELSE LET init == SortedReverseTies(SubSeq(pairs, 1, Len(pairs) - 1))
             p    == pairs[Len(pairs)]
             k    == Cardinality({i \in 1..Len(init) :
                                    /\ FLe(init[i][1], p[1])
                                    /\ init[i][1] # p[1]})
         IN  SubSeq(init, 1, k) \o <<p>> \o SubSeq(init, k + 1, Len(init))

\* sorted(pairs, key=lambda t: t[0]): a stable sort by x
RECURSIVE Sorted(_)
Sorted(pairs) ==
    IF pairs = <<>> THEN <<>>
    ELSE LET init == Sorted(SubSeq(pairs, 1, Len(pairs) - 1))
             p    == pairs[Len(pairs)]
             k    == Cardinality({i \in 1..Len(init) : FLe(init[i][1], p[1])})
         IN  SubSeq(init, 1, k) \o <<p>> \o SubSeq(init, k + 1, Len(init))

\* swr_calc.PiecewiseLinear.__init__
SwrPiecewiseLinear(x, y) ==
    IF Len(x) # Len(y) \/ Len(x) < 2 THEN ValueError
    ELSE LET pairs == Sorted(Zip(x, y))
         IN  [ ok |-> TRUE,
               x  |-> [i \in 1..Len(pairs) |-> pairs[i][1]],
               y  |-> [i \in 1..Len(pairs) |-> pairs[i][2]] ]

\* thermistor.PiecewiseLinear.__init__
ThermPiecewiseLinear(x, y) ==
    IF Len(x) # Len(y) \/ Len(x) < 2 THEN ValueError
    ELSE LET pairs == Sorted(Zip(x, y))
         IN  [ ok |-> TRUE,
               x  |-> [i \in 1..Len(pairs) |-> pairs[i][1]],
               y  |-> [i \in 1..Len(pairs) |-> pairs[i][2]] ]

\* mutant: the bracketing segment's first y is returned, not interpolated
RECURSIVE SwrScanStep(_, _, _)
SwrScanStep(self, xq, i) ==
    IF i > Len(self.x) - 1 THEN self.y[Len(self.y)]
    ELSE IF FLe(self.x[i], xq) /\ FLe(xq, self.x[i + 1]) THEN self.y[i]
    ELSE SwrScanStep(self, xq, i + 1)

\* swr_calc.PiecewiseLinear.interp: the loop from segment i on
RECURSIVE SwrScan(_, _, _)
SwrScan(self, xq, i) ==
    IF i > Len(self.x) - 1 THEN self.y[Len(self.y)]
    ELSE LET x0 == self.x[i]
             x1 == self.x[i + 1]
         IN  IF FLe(x0, xq) /\ FLe(xq, x1)
             THEN LET y0 == self.y[i]
                      y1 == self.y[i + 1]
                  IN  IF x1 = x0 THEN y0
                      ELSE LET t == FDiv(FSub(xq, x0), FSub(x1, x0))
                           IN  FAdd(y0, FMul(t, FSub(y1, y0)))
             ELSE SwrScan(self, xq, i + 1)

\* swr_calc.PiecewiseLinear.interp: the loop from segment i on returns
\* through the branch x1 == x0
RECURSIVE SwrScanTakesGuard(_, _, _)
SwrScanTakesGuard(self, xq, i) ==
    IF i > Len(self.x) - 1 THEN FALSE
    ELSE IF FLe(self.x[i], xq) /\ FLe(xq, self.x[i + 1])
         THEN self.x[i + 1] = self.x[i]
         ELSE SwrScanTakesGuard(self, xq, i + 1)

\* swr_calc.PiecewiseLinear.interp returns through the branch x1 == x0
SwrTakesGuard(self, xq) ==
    /\ ~FLe(xq, self.x[1])
    /\ ~FLe(self.x[Len(self.x)], xq)
    /\ SwrScanTakesGuard(self, xq, 1)

\* mutant: the upper clamp takes only queries above the last x
SwrInterpStrictUpper(self, xq) ==
    IF FLe(xq, self.x[1]) THEN self.y[1]
    ELSE IF FLe(self.x[Len(self.x)], xq) /\ xq # self.x[Len(self.x)]
    THEN self.y[Len(self.y)]
    ELSE SwrScan(self, xq, 1)

\* swr_calc.PiecewiseLinear.interp
SwrInterp(self, xq) ==
    IF FLe(xq, self.x[1]) THEN self.y[1]
    ELSE IF FLe(self.x[Len(self.x)], xq) THEN self.y[Len(self.y)]
    ELSE SwrScan(self, xq, 1)

\* mutant: the line is taken from the segment's second point
RECURSIVE ThermScanFromEnd(_, _, _)
ThermScanFromEnd(self, xq, i) ==
    IF i > Len(self.x) - 1 THEN self.y[Len(self.y)]
    ELSE LET x0 == self.x[i]
             x1 == self.x[i + 1]
         IN  IF FLe(x0, xq) /\ FLe(xq, x1)
             THEN LET y0 == self.y[i]
                      y1 == self.y[i + 1]
                      t  == FDiv(FSub(xq, x0), FSub(x1, x0))
                  IN  IF t = ZeroDivisionError THEN ZeroDivisionError
                      ELSE FAdd(y1, FMul(t, FSub(y1, y0)))
             ELSE ThermScanFromEnd(self, xq, i + 1)

\* thermistor.PiecewiseLinear.interp: the loop from segment i on
RECURSIVE ThermScan(_, _, _)
ThermScan(self, xq, i) ==
    IF i > Len(self.x) - 1 THEN self.y[Len(self.y)]
    ELSE LET x0 == self.x[i]
             x1 == self.x[i + 1]
         IN  IF FLe(x0, xq) /\ FLe(xq, x1)
             THEN LET y0 == self.y[i]
                      y1 == self.y[i + 1]
                      t  == FDiv(FSub(xq, x0), FSub(x1, x0))
                  IN  IF t = ZeroDivisionError THEN ZeroDivisionError
                      ELSE FAdd(y0, FMul(t, FSub(y1, y0)))
             ELSE ThermScan(self, xq, i + 1)

\* mutant: the lower clamp takes only queries below the first x
ThermInterpStrictClamp(self, xq) ==
    IF FLe(xq, self.x[1]) /\ xq # self.x[1] THEN self.y[1]
    ELSE IF FLe(self.x[Len(self.x)], xq) THEN self.y[Len(self.y)]
    ELSE ThermScan(self, xq, 1)

\* thermistor.PiecewiseLinear.interp
ThermInterp(self, xq) ==
    IF FLe(xq, self.x[1]) THEN self.y[1]
    ELSE IF FLe(self.x[Len(self.x)], xq) THEN self.y[Len(self.y)]
    ELSE ThermScan(self, xq, 1)

\* no list, no query, nothing returned yet
NoFloat == <<>>

----------------------------------------------------------------------------
(* swr_from_powers (swr_calc.py) *)

\* mutant: zero forward power is not caught by the first test
SwrFromPowersZeroFwd(pfwd_w, prfl_w) ==
    IF FLt(pfwd_w, FromInt(0)) THEN Inf
    ELSE LET prfl  == IF FLt(prfl_w, FromInt(0)) THEN FromInt(0) ELSE prfl_w
             ratio == FDiv(prfl, pfwd_w)
         IN  IF Raised(ratio) THEN ratio
             ELSE IF FLe(FromInt(1), ratio) THEN Inf
             ELSE LET gamma == FSqrt(ratio)
                      denom == FSub(FromInt(1), gamma)
                  IN  IF FLe(denom, FromInt(0)) THEN Inf
                      ELSE FDiv(FAdd(FromInt(1), gamma), denom)

\* swr_from_powers(pfwd_w, prfl_w): the value returned or the exception
\* raised
SwrFromPowers(pfwd_w, prfl_w) ==
    IF FLe(pfwd_w, FromInt(0)) THEN Inf
    ELSE LET prfl  == IF FLt(prfl_w, FromInt(0)) THEN FromInt(0) ELSE prfl_w
             ratio == FDiv(prfl, pfwd_w)
         IN  IF Raised(ratio) THEN ratio
             ELSE IF FLe(FromInt(1), ratio) THEN Inf
             ELSE LET gamma == FSqrt(ratio)
                      denom == FSub(FromInt(1), gamma)
                  IN  IF Raised(gamma) THEN gamma
                      ELSE IF FLe(denom, FromInt(0)) THEN Inf
                      ELSE FDiv(FAdd(FromInt(1), gamma), denom)

----------------------------------------------------------------------------
(* SWRCalc.read_avg_volts (swr_calc.py) *)

\* _DR_SPS: ADS1115 data rate codes -> samples per second
DR_SPS ==
    (0 :> 8) @@ (32 :> 16) @@ (64 :> 32) @@ (96 :> 64) @@ (128 :> 128) @@
    (160 :> 250) @@ (192 :> 475) @@ (224 :> 860)

\* _DR_SPS.get(data_rate, 128)
SpsOf(data_rate) ==
    IF data_rate \in DOMAIN DR_SPS THEN DR_SPS[data_rate] ELSE 128

\* int(n / d) for integers n and d > 0: the quotient without its fraction
IntOfQuotient(n, d) == IF n >= 0 THEN n \div d ELSE -((-n) \div d)

\* mutant: a count below 1 is kept
SampleCountNoFloor(data_rate, window_ms) ==
    IntOfQuotient(SpsOf(data_rate) * window_ms, 1000)

\* the sample count read_avg_volts derives from the rate and the window
SampleCount(data_rate, window_ms) ==
    LET samples == IntOfQuotient(SpsOf(data_rate) * window_ms, 1000)
    IN  IF samples < 1 THEN 1 ELSE samples

\* the loop of read_avg_volts, k passes left: the sums and the reads made
\* (the test of acc.fwd, never true, has the sums computed pass by pass)
RECURSIVE AvgLoop(_, _, _, _)
AvgLoop(k, acc, vfwd, vrfl) ==
    IF k <= 0 \/ acc.fwd < 0 THEN acc
    ELSE AvgLoop(k - 1,
                 [ sum_fwd |-> FAdd(acc.sum_fwd, vfwd),
                   sum_rfl |-> FAdd(acc.sum_rfl, vrfl),
                   fwd     |-> acc.fwd + 1,
                   rfl     |-> acc.rfl + 1 ],
                 vfwd, vrfl)

\* read_avg_volts(window_ms) with a converter that reads vfwd and vrfl: the
\* tuple returned and the reads made
ReadAvgVolts(data_rate, window_ms, vfwd, vrfl) ==
    LET samples == SampleCount(data_rate, window_ms)
        acc     == AvgLoop(samples,
                           [ sum_fwd |-> FromInt(0), sum_rfl |-> FromInt(0),
                             fwd |-> 0, rfl |-> 0 ],
                           vfwd, vrfl)
    IN  [ out   |-> << FDiv(acc.sum_fwd, FromInt(samples)),
                       FDiv(acc.sum_rfl, FromInt(samples)),
                       samples >>,
          reads |-> [fwd |-> acc.fwd, rfl |-> acc.rfl] ]

----------------------------------------------------------------------------
(* The calibration loaders (swr_calc.py and thermistor.py).  A file is the *)
(* list of its lines and a line the list of its cells, the texts between   *)
(* the commas; a cell is one of the texts of Cells.                         *)

Cells == { "FWD", "V", "Temperature", "Resistance", "1", "2", " 2", "4",
           "", " ", "#c", "# 1" }

\* s.strip()
Strip(s) == CASE s = " 2" -> "2"
              [] s = " "  -> ""
              [] OTHER    -> s

\* s.startswith("#")
StartsWithHash(s) == s \in {"#c", "# 1"}

\* float(s) for a stripped text, NoFloat where float raises
Float(s) == CASE s = "1" -> FromInt(1)
              [] s = "2" -> FromInt(2)
              [] s = "4" -> FromInt(4)
              [] OTHER   -> NoFloat

\* swr_calc._try_float(s)
try_float(s) == Float(Strip(s))

\* line.strip() is the empty text
IsBlank(line) == Len(line) = 1 /\ Strip(line[1]) = ""

\* line.strip().startswith("#")
IsComment(line) == StartsWithHash(Strip(line[1]))

\* the line gives load_v_to_w_curve a row
CurveRow(line) ==
    /\ ~IsBlank(line)
    /\ ~IsComment(line)
    /\ Len(line) >= 2
    /\ try_float(line[1]) # NoFloat
    /\ try_float(line[2]) # NoFloat

\* load_v_to_w_curve(csv_path) for the file at that path
load_v_to_w_curve(file) ==
    LET rows    == SelectSeq(file, CurveRow)
        power_w == [i \in 1..Len(rows) |-> try_float(rows[i][1])]
        volts_v == [i \in 1..Len(rows) |-> try_float(rows[i][2])]
    IN  IF Len(power_w) < 2 THEN ValueError
        ELSE SwrPiecewiseLinear(volts_v, power_w)

\* the cell is numeric
IsNumeric(p) == Float(Strip(p)) # NoFloat

\* thermistor._to_floats(parts)
to_floats(parts) ==
    LET kept == SelectSeq(parts, IsNumeric)
    IN  [i \in 1..Len(kept) |-> Float(Strip(kept[i]))]

\* the line is kept by load_two_row_table
NotBlank(line) == ~IsBlank(line)

\* raise ValueError(...) in load_two_row_table
TableError == [ok |-> FALSE, temps_f |-> <<>>, res_ohm |-> <<>>]

\* load_two_row_table(csv_path) for the file at that path
load_two_row_table(file) ==
    LET lines == SelectSeq(file, NotBlank)
    IN  IF Len(lines) < 2 THEN TableError
        ELSE LET temps_f == to_floats(Tail(lines[1]))
                 res_ohm == to_floats(Tail(lines[2]))
             IN  IF Len(temps_f) < 2 \/ Len(res_ohm) < 2 THEN TableError
                 ELSE IF Len(temps_f) # Len(res_ohm) THEN TableError
                 ELSE [ok |-> TRUE, temps_f |-> temps_f, res_ohm |-> res_ohm]

\* no loader has run
NotLoaded == [ok |-> FALSE]

----------------------------------------------------------------------------
(* Values of the variables a specification does not exercise *)

CtrlIdle ==
    /\ ctrl = AmpControlInit
    /\ now \in StartTicks
    /\ telemetry = EmptyTel
    /\ decision = NoDecision
    /\ press_action = "none"
    /\ latched = "none"
    /\ fault_gap = FALSE
    /\ therm_gap = FALSE
    /\ npresses = 0
    /\ oc_span = None
    /\ nupdates = 0

FrIdle ==
    /\ fr_tel = EmptyTel
    /\ fr_out = NoResult
    /\ fr_rec = "none"

BtnIdle ==
    /\ amp_btn = AmpControlInit
    /\ band = BandSwitchInit(1, 0)
    /\ btn_now = 0
    /\ btn_level = 1
    /\ amp_event = FALSE
    /\ band_event = FALSE
    /\ btn_phase = "idle"
    /\ btn_held = 0
    /\ nobs = 0

WrapIdle ==
    /\ w_ctrl = AmpControlInit
    /\ u_ctrl = AmpControlInit
    /\ w_now = 0
    /\ u_now = 0
    /\ w_event = FALSE
    /\ u_event = FALSE
    /\ w_latched = FALSE
    /\ u_latched = FALSE
    /\ nwrap = 0

PlIdle ==
    /\ pl_x = <<>>
    /\ pl_y = <<>>
    /\ pl_swr = ValueError
    /\ pl_therm = ValueError
    /\ pl_q = NoFloat
    /\ pl_swr_out = NoFloat
    /\ pl_therm_out = NoFloat

TelIdle ==
    /\ tl_self = AmpControlInit
    /\ tl_now = 0
    /\ tl_tel = EmptyTel
    /\ tl_out = NoResult

SwIdle ==
    /\ sw_pfwd = NoFloat
    /\ sw_prfl = NoFloat
    /\ sw_out = NoFloat

AvIdle ==
    /\ av_rate = None
    /\ av_window = 0
    /\ av_vfwd = NoFloat
    /\ av_vrfl = NoFloat
    /\ av_reads = [fwd |-> 0, rfl |-> 0]
    /\ av_out = NoFloat

LdIdle ==
    /\ ld_curve = <<>>
    /\ ld_two = <<>>
    /\ ld_curve_file = <<>>
    /\ ld_two_file = <<>>
    /\ ld_curve_out = NotLoaded
    /\ ld_two_out = NotLoaded
    /\ ld_inserted = {}

BoIdle ==
    /\ bo_self = BandSwitchInit(1, 0)
    /\ bo_pins = [i \in 1..NumBands |-> 0]
    /\ bo_trace = <<>>
    /\ bo_now = 0
    /\ bo_call = "none"
    /\ bo_event = FALSE
    /\ bo_off = FALSE
    /\ bo_calls = 0

KyIdle ==
    /\ ky_self = KeyerInit(TRUE, 10, "none", 1, 0)
    /\ ky_now = 0
    /\ ky_level = 1
    /\ ky_prev = 1
    /\ ky_held = 0
    /\ ky_was = FALSE
    /\ ky_ret = FALSE
    /\ ky_cb = <<>>
    /\ ky_call = "none"
    /\ ky_calls = 0

PrIdle ==
    /\ pr_self = ProtectionInit
    /\ pr_now = 0
    /\ pr_ret = <<FALSE, "none">>
    /\ pr_was = FALSE
    /\ pr_latched = "none"
    /\ pr_held = None
    /\ pr_calls = 0

MnIdle ==
    /\ mn_pc = "idle"
    /\ mn_out = None
    /\ mn_ctrl = AmpControlInit
    /\ mn_bands = BandSwitchInit(1, 0)
    /\ mn_state = NoDecision
    /\ mn_latest = EmptyTel
    /\ mn_now = 0
    /\ mn_t = [fast |-> 0, swr |-> 0, therm |-> 0]
    /\ mn_acquired = FALSE
    /\ mn_passes = 0

HoIdle ==
    /\ ho_ctrl = AmpControlInit
    /\ ho_now = TICKS_PERIOD - 20
    /\ ho_decision = NoDecision
    /\ ho_fault = None
    /\ ho_therm = None
    /\ ho_cleared = FALSE
    /\ ho_calls = 0

ShIdle ==
    /\ sh_ctrl = AmpControlInit
    /\ sh_now = TICKS_PERIOD - 20
    /\ sh_decision = NoDecision
    /\ sh_kind = "OK"
    /\ sh_prev = "OK"
    /\ sh_was = FALSE
    /\ sh_start = None
    /\ sh_tstart = None
    /\ sh_hot = FALSE
    /\ sh_stored = "OK"
    /\ sh_latched = "none"
    /\ sh_event = FALSE
    /\ sh_calls = 0

LvIdle ==
    /\ lv_ctrl = AmpControlInit
    /\ lv_now = TICKS_PERIOD - 20
    /\ lv_decision = NoDecision
    /\ lv_held = FALSE
    /\ lv_span = None
    /\ lv_latches = 0
    /\ lv_after = 0
    /\ lv_calls = 0

ExtIdle ==
    /\ SwIdle
    /\ AvIdle
    /\ LdIdle
    /\ BoIdle
    /\ KyIdle
    /\ PrIdle
    /\ MnIdle
    /\ HoIdle
    /\ ShIdle
    /\ LvIdle

OldIdle ==
    /\ CtrlIdle
    /\ FrIdle
    /\ BtnIdle
    /\ WrapIdle
    /\ TelIdle
    /\ PlIdle

\* every part as it is after construction, before any call
AllIdle == OldIdle /\ ExtIdle

----------------------------------------------------------------------------
(* AmpControl.update driven by the main loop *)

Init ==
    /\ ctrl = AmpControlInit
    /\ now \in StartTicks
    /\ telemetry = EmptyTel
    /\ decision = NoDecision
    /\ press_action = "none"
    /\ latched = "none"
    /\ fault_gap = FALSE
    /\ therm_gap = FALSE
    /\ npresses = 0
    /\ oc_span = None
    /\ nupdates = 0
    /\ fr_tel = EmptyTel
    /\ fr_out = NoResult
    /\ fr_rec = "none"
    /\ BtnIdle
    /\ WrapIdle
    /\ TelIdle
    /\ PlIdle
    /\ ExtIdle

\* AmpControl.update(tel, now + d, level)
Update(tel, d, level) ==
    LET now_ms == ticks_add(now, d)
        fr     == FaultReason(tel)
        ot     == Overtemp(tel)
        s1     == FastStep(ctrl, fr, now_ms)
        s2     == ThermStep(s1, ot, now_ms)
        ev     == ButtonEvent(s2, now_ms, level)
        s3     == ButtonStep(s2, now_ms, level)
        s4     == PressStep(s3, ev)
    IN  /\ nupdates < MaxUpdates
        /\ nupdates' = nupdates + 1
        /\ now' = now_ms
        /\ telemetry' = tel
        /\ ctrl' = s4
        /\ decision' = Decision(s4)
        /\ press_action' = IF ~ev THEN "none"
                           ELSE IF s3.tripped THEN "clear" ELSE "toggle"
        /\ npresses' = IF ev THEN Min(npresses + 1, 2) ELSE npresses
        /\ latched' = IF s1.tripped /\ ~ctrl.tripped THEN "fast"
                      ELSE IF s2.tripped /\ ~s1.tripped THEN "therm"
                      ELSE "none"
        /\ fault_gap' = IF s4.fault_start_ms = None THEN FALSE
                        ELSE IF ctrl.fault_start_ms = None THEN FALSE
                        ELSE fault_gap \/ ~fr.is_fault
        /\ therm_gap' = IF s4.therm_start_ms = None THEN FALSE
                        ELSE IF ctrl.therm_start_ms = None THEN FALSE
                        ELSE therm_gap \/ ~ot
        /\ oc_span' = IF ~OverCurrentOnly(tel) THEN None
                      ELSE IF oc_span # None
                             THEN Min(oc_span + d, PROTECT_TRIP_DEBOUNCE_MS)
                      ELSE IF ~ctrl.tripped THEN 0
                      ELSE None
        /\ UNCHANGED <<frVars, btnVars, wrapVars, telVars, plVars, extVars>>

Next == \E tel \in Snapshots, d \in Deltas, level \in {0, 1} :
            Update(tel, d, level)

Spec == Init /\ [][Next]_vars

----------------------------------------------------------------------------
(* _fault_reason as a function of the telemetry alone *)

VDrainValues == {0, 35, 36}
IDrainValues == {0, 1, 2, 3, 9, 10}
VccValues    == {0, 4, 5, 28}
PfwdValues   == {0, 2, 3, 62, 63}

FaultGrid ==
    { Tel(v, i, c, p) : v \in VDrainValues, i \in IDrainValues,
                        c \in VccValues, p \in PfwdValues }
    \cup { EmptyTel }

\* an AmpControl whose fast timer was started at tick 0 and is still running
Armed == [AmpControlInit EXCEPT !.fault_start_ms = 0]

InitFault ==
    /\ ctrl = AmpControlInit
    /\ now \in StartTicks
    /\ telemetry = EmptyTel
    /\ decision = NoDecision
    /\ press_action = "none"
    /\ latched = "none"
    /\ fault_gap = FALSE
    /\ therm_gap = FALSE
    /\ npresses = 0
    /\ oc_span = None
    /\ nupdates = 0
    /\ fr_tel \in FaultGrid
    /\ fr_out = NoResult
    /\ fr_rec = "none"
    /\ BtnIdle
    /\ WrapIdle
    /\ TelIdle
    /\ PlIdle
    /\ ExtIdle

\* is_fault, reason = self._fault_reason(telemetry), then step 1 of update
\* on an object whose fast timer has run for the debounce duration
EvalFault ==
    /\ fr_out = NoResult
    /\ fr_out' = FaultReason(fr_tel)
    /\ fr_rec' = FastStep(Armed, FaultReason(fr_tel),
                          PROTECT_TRIP_DEBOUNCE_MS).last_reason
    /\ UNCHANGED <<fr_tel, ctrlVars, btnVars, wrapVars, telVars, plVars, extVars>>

NextFault == EvalFault

SpecFault == InitFault /\ [][NextFault]_vars

----------------------------------------------------------------------------
(* The two debouncers on one sequence of (time stamp, raw level)           *)
(* observations: BandSwitch's constructor takes the first observation,     *)
(* which AmpControl takes in its first call.                               *)

\* number of observations explored
MaxObs == 6

\* time that passes between two observations
BtnDeltas == {1, 5, 10}

InitBtn ==
    /\ CtrlIdle
    /\ FrIdle
    /\ btn_now \in StartTicks
    /\ btn_level \in {0, 1}
    /\ amp_btn = AmpControlInit
    /\ band = BandSwitchInit(btn_level, btn_now)
    /\ amp_event = FALSE
    /\ band_event = FALSE
    /\ btn_phase = "idle"
    /\ btn_held = 0
    /\ nobs = 0
    /\ WrapIdle
    /\ TelIdle
    /\ PlIdle
    /\ ExtIdle

\* AmpControl._debounced_button_event, first call, on the observation the
\* BandSwitch constructor read
BtnFirst ==
    /\ nobs = 0
    /\ nobs' = 1
    /\ amp_event' = ButtonEvent(amp_btn, btn_now, btn_level)
    /\ amp_btn' = ButtonStep(amp_btn, btn_now, btn_level)
    /\ UNCHANGED <<band, btn_now, btn_level, band_event, btn_phase, btn_held,
                   ctrlVars, frVars, wrapVars, telVars, plVars, extVars>>

\* one more observation, given to both objects
BtnObserve(d, level) ==
    LET now_ms == ticks_add(btn_now, d)
        ev     == ButtonEvent(amp_btn, now_ms, level)
        held   == IF level = btn_level
                  THEN Min(btn_held + d, RESET_DEBOUNCE_MS)
                  ELSE 0
    IN  /\ nobs >= 1
        /\ nobs < MaxObs
        /\ nobs' = nobs + 1
        /\ btn_now' = now_ms
        /\ btn_level' = level
        /\ amp_event' = ev
        /\ amp_btn' = ButtonStep(amp_btn, now_ms, level)
        /\ band_event' = BandPressEvent(band, now_ms, level)
        /\ band' = BandUpdate(band, now_ms, level)
        /\ btn_held' = held
        /\ btn_phase' = IF ev THEN "fired"
                        ELSE IF /\ btn_phase = "fired"
                                /\ ~btn_is_pressed(level)
                                /\ held >= RESET_DEBOUNCE_MS
                        THEN "released"
                        ELSE btn_phase
        /\ UNCHANGED <<ctrlVars, frVars, wrapVars, telVars, plVars, extVars>>

NextBtn ==
    \/ BtnFirst
    \/ \E d \in BtnDeltas, level \in {0, 1} : BtnObserve(d, level)

SpecBtn == InitBtn /\ [][NextBtn]_vars

----------------------------------------------------------------------------
(* AmpControl.update across the wrap of the tick counter, beside the same  *)
(* calls made with stamps that do not wrap                                 *)

\* number of update calls explored
MaxWrapUpdates == 4

\* time that passes between two update calls
WrapDeltas == {2, 10, 50, 5000}

\* the counter's value at construction: the first call can fall on
\* TICKS_PERIOD - 2 and the next one on 0
WrapStart == TICKS_PERIOD - 4

\* every key missing; over current without a temperature; overtemp alone
WrapSnapshots ==
    { EmptyTel,
      Tel(28, 10, 28, 100),
      WithTemp(Tel(28, 0, 28, 0), 40) }

\* AmpControl.update: the object after the call
AmpUpdate(self, tel, now_ms, level) ==
    LET s1 == FastStep(self, FaultReason(tel), now_ms)
        s2 == ThermStep(s1, Overtemp(tel), now_ms)
        ev == ButtonEvent(s2, now_ms, level)
        s3 == ButtonStep(s2, now_ms, level)
    IN  PressStep(s3, ev)

\* AmpControl.update: pressed_event of step 3
AmpUpdateEvent(self, tel, now_ms, level) ==
    LET s1 == FastStep(self, FaultReason(tel), now_ms)
        s2 == ThermStep(s1, Overtemp(tel), now_ms)
    IN  ButtonEvent(s2, now_ms, level)

\* AmpControl.update: step 1 or step 2 set the latch
AmpUpdateLatched(self, tel, now_ms) ==
    LET s1 == FastStep(self, FaultReason(tel), now_ms)
        s2 == ThermStep(s1, Overtemp(tel), now_ms)
    IN  s2.tripped /\ ~self.tripped

InitWrap ==
    /\ CtrlIdle
    /\ FrIdle
    /\ BtnIdle
    /\ w_ctrl = AmpControlInit
    /\ u_ctrl = AmpControlInit
    /\ w_now = WrapStart
    /\ u_now = WrapStart
    /\ w_event = FALSE
    /\ u_event = FALSE
    /\ w_latched = FALSE
    /\ u_latched = FALSE
    /\ nwrap = 0
    /\ TelIdle
    /\ PlIdle
    /\ ExtIdle

\* the same update call on both objects, d ms after the previous one
WrapUpdate(tel, d, level) ==
    LET wn == ticks_add(w_now, d)
        un == u_now + d
    IN  /\ nwrap < MaxWrapUpdates
        /\ nwrap' = nwrap + 1
        /\ w_now' = wn
        /\ u_now' = un
        /\ w_ctrl' = AmpUpdate(w_ctrl, tel, wn, level)
        /\ u_ctrl' = AmpUpdate(u_ctrl, tel, un, level)
        /\ w_event' = AmpUpdateEvent(w_ctrl, tel, wn, level)
        /\ u_event' = AmpUpdateEvent(u_ctrl, tel, un, level)
        /\ w_latched' = AmpUpdateLatched(w_ctrl, tel, wn)
        /\ u_latched' = AmpUpdateLatched(u_ctrl, tel, un)
        /\ UNCHANGED <<ctrlVars, frVars, btnVars, telVars, plVars, extVars>>

NextWrap ==
    \E tel \in WrapSnapshots, d \in WrapDeltas, level \in {0, 1} :
        WrapUpdate(tel, d, level)

SpecWrap == InitWrap /\ [][NextWrap]_vars

----------------------------------------------------------------------------
(* AmpControl.update on a telemetry mapping with keys missing *)

TelKeys == {"vDrain", "iDrain", "vcc", "pfwd_w", "temp_c"}

\* the mapping t with only the keys in K
Restrict(t, K) == [k \in DOMAIN t \cap K |-> t[k]]

\* over voltage, over current and overtemp; forward power low, not overtemp
TelBase ==
    { WithTemp(Tel(36, 10, 28, 2), 40),
      WithTemp(Tel(28, 3, 5, 2), 39) }

\* every mapping that keeps some of the keys of a base mapping
TelGrid == { Restrict(b, K) : b \in TelBase, K \in SUBSET TelKeys }

\* a snapshot with an electrical fault and overtemp
TelHot == WithTemp(Tel(36, 10, 28, 100), 40)

\* a new object; one with both timers running; one that has latched
TelObjects(t) ==
    LET armed   == AmpUpdate(AmpControlInit, TelHot, t, 1)
        tripped == AmpUpdate(armed, TelHot,
                             ticks_add(t, PROTECT_TRIP_DEBOUNCE_MS), 1)
    IN  { AmpControlInit, armed, tripped }

\* ms from the calls that prepared the object to the call on the mapping
TelGap == 60

InitTel ==
    /\ CtrlIdle
    /\ FrIdle
    /\ BtnIdle
    /\ WrapIdle
    /\ tl_now \in StartTicks
    /\ tl_self \in TelObjects(tl_now)
    /\ tl_tel \in TelGrid
    /\ tl_out = NoResult
    /\ PlIdle
    /\ ExtIdle

\* state = ctrl.update(tl_tel, now_ms, 1)
EvalTel ==
    LET now_ms == ticks_add(tl_now, TelGap)
        obj    == AmpUpdate(tl_self, tl_tel, now_ms, 1)
    IN  /\ tl_out = NoResult
        /\ tl_out' = [ fault    |-> FaultReason(tl_tel),
                       overtemp |-> Overtemp(tl_tel),
                       obj      |-> obj,
                       decision |-> Decision(obj) ]
        /\ UNCHANGED <<tl_self, tl_now, tl_tel, ctrlVars, frVars, btnVars,
                       wrapVars, plVars, extVars>>

NextTel == EvalTel

SpecTel == InitTel /\ [][NextTel]_vars

----------------------------------------------------------------------------
(* The two PiecewiseLinear classes on the same lists and queries *)

\* longest list given to a constructor
MaxPoints == 4

\* an integer that is a float and whose distance from 1 is not a float
YBig == 2^FloatBits + 2

XVals == { FromInt(1), FromInt(2), FromInt(4) }

YVals == { FromInt(1), FromInt(3), FromInt(YBig) }

\* lists up to this length take every value of YVals, longer ones the two
\* values of YEnds
FullPoints == 3

YEnds == { FromInt(1), FromInt(YBig) }

\* 0, 1, 1.5, 2, 2.5, 3, 4, 5: below, at, halfway between and above the x
Queries ==
    { FromInt(0), FromInt(1), Fl(1, 3, -1), FromInt(2), Fl(1, 5, -1),
      FromInt(3), FromInt(4), FromInt(5) }

\* the lists of n elements of S
ListsOf(S, n) == [1..n -> S]

InitPl ==
    /\ CtrlIdle
    /\ FrIdle
    /\ BtnIdle
    /\ WrapIdle
    /\ TelIdle
    /\ ExtIdle
    /\ \E n \in 1..MaxPoints :
          /\ pl_x \in ListsOf(XVals, n)
          /\ pl_y \in ListsOf(IF n <= FullPoints THEN YVals ELSE YEnds, n)
                      \cup (IF n <= 2 THEN ListsOf(YVals, n + 1) ELSE {})
    /\ pl_swr = ValueError
    /\ pl_therm = ValueError
    /\ pl_q = NoFloat
    /\ pl_swr_out = NoFloat
    /\ pl_therm_out = NoFloat

\* PiecewiseLinear(x, y), of swr_calc and of thermistor
Construct ==
    /\ ~pl_swr.ok
    /\ ~pl_therm.ok
    /\ pl_swr' = SwrPiecewiseLinear(pl_x, pl_y)
    /\ pl_therm' = ThermPiecewiseLinear(pl_x, pl_y)
    /\ UNCHANGED <<pl_x, pl_y, pl_q, pl_swr_out, pl_therm_out,
                   ctrlVars, frVars, btnVars, wrapVars, telVars, extVars>>

\* interp(xq) on both objects
Interp(xq) ==
    /\ pl_swr.ok
    /\ pl_therm.ok
    /\ pl_q = NoFloat
    /\ pl_q' = xq
    /\ pl_swr_out' = SwrInterp(pl_swr, xq)
    /\ pl_therm_out' = ThermInterp(pl_therm, xq)
    /\ UNCHANGED <<pl_x, pl_y, pl_swr, pl_therm,
                   ctrlVars, frVars, btnVars, wrapVars, telVars, extVars>>

NextPl ==
    \/ Construct
    \/ \E xq \in Queries : Interp(xq)

SpecPl == InitPl /\ [][NextPl]_vars

----------------------------------------------------------------------------
(* The two PiecewiseLinear classes on tables whose differences are not    *)
(* floats                                                                  *)

\* longest list given to a constructor
MaxOverPoints == 3

\* 0.5, 4, 7: 7 - 0.5 is not a float of FloatBits bits
OverXVals == { Fl(1, 1, -1), FromInt(4), FromInt(7) }

\* 0.5, 1, 6: 6 - 0.5 is not a float of FloatBits bits
OverYVals == { Fl(1, 1, -1), FromInt(1), FromInt(6) }

\* 0.25, 0.5, 2, 4, 6, 7, 8: below, at, between and above the x
OverQueries ==
    { Fl(1, 1, -2), Fl(1, 1, -1), FromInt(2), FromInt(4), FromInt(6),
      FromInt(7), FromInt(8) }

InitOver ==
    /\ CtrlIdle
    /\ FrIdle
    /\ BtnIdle
    /\ WrapIdle
    /\ TelIdle
    /\ ExtIdle
    /\ \E n \in 1..MaxOverPoints :
          /\ pl_x \in ListsOf(OverXVals, n)
          /\ pl_y \in ListsOf(OverYVals, n)
    /\ pl_swr = ValueError
    /\ pl_therm = ValueError
    /\ pl_q = NoFloat
    /\ pl_swr_out = NoFloat
    /\ pl_therm_out = NoFloat

NextOver ==
    \/ Construct
    \/ \E xq \in OverQueries : Interp(xq)

SpecOver == InitOver /\ [][NextOver]_vars

----------------------------------------------------------------------------
(* swr_from_powers on a grid of powers *)

\* the powers s * n * 2^e for both signs, n up to 2^FloatBits and these e
PowerExps == {-2, 0, 1}

PowerVals ==
    { Fl(s, n, e) : s \in {-1, 1}, n \in 0..(2^FloatBits), e \in PowerExps }

\* swr_from_powers(pfwd_w, prfl_w)
SwrCall(pfwd_w, prfl_w) ==
    /\ sw_pfwd = NoFloat
    /\ sw_pfwd' = pfwd_w
    /\ sw_prfl' = prfl_w
    /\ sw_out' = SwrFromPowers(pfwd_w, prfl_w)
    /\ UNCHANGED notSw

NextSwr == \E pfwd_w \in PowerVals, prfl_w \in PowerVals :
              SwrCall(pfwd_w, prfl_w)

SpecSwr == AllIdle /\ [][NextSwr]_vars

----------------------------------------------------------------------------
(* read_avg_volts over the data rates and a set of windows *)

\* the eight codes of _DR_SPS and one that is not a key of it
RateCodes == DOMAIN DR_SPS \cup {256}

WindowVals == {-100, 0, 1, 10, 25, 50, 62, 100}

VoltVals == { FromInt(0), FromInt(1) }

\* read_avg_volts(window_ms)
AvgCall(data_rate, window_ms, vfwd, vrfl) ==
    /\ av_rate = None
    /\ av_rate' = data_rate
    /\ av_window' = window_ms
    /\ av_vfwd' = vfwd
    /\ av_vrfl' = vrfl
    /\ av_reads' = ReadAvgVolts(data_rate, window_ms, vfwd, vrfl).reads
    /\ av_out' = ReadAvgVolts(data_rate, window_ms, vfwd, vrfl).out
    /\ UNCHANGED notAv

NextAvg == \E data_rate \in RateCodes, window_ms \in WindowVals,
              vfwd \in VoltVals, vrfl \in VoltVals :
              AvgCall(data_rate, window_ms, vfwd, vrfl)

SpecAvg == AllIdle /\ [][NextAvg]_vars

----------------------------------------------------------------------------
(* The loaders on files with blank and comment lines inserted *)

\* most lines inserted in the two files together
MaxInserts == 2

\* valid power-curve files: with and without a header, with cells to strip
CurveFiles ==
    { << <<"FWD", "V">>, <<"1", "2">>, <<"4", "4">> >>,
      << <<"1", "1">>, <<"2", " 2">>, <<"4", "4">> >> }

\* valid two-row files
TwoRowFiles ==
    { << <<"Temperature", "1", "2">>, <<"Resistance", "4", "2">> >>,
      << <<"Temperature", "1", " 2", "4">>,
         <<"Resistance", "4", "2", "1">> >> }

\* blank lines and lines that begin with the comment marker
SkippedLines == { <<"">>, <<" ">>, <<"#c">>, <<"# 1", "2">> }

\* the file with the line put after its first k lines
InsertAt(file, k, line) ==
    SubSeq(file, 1, k) \o <<line>> \o SubSeq(file, k + 1, Len(file))

\* the files as first written
WriteFiles(curve, two) ==
    /\ ld_curve = <<>>
    /\ ld_curve' = curve
    /\ ld_two' = two
    /\ ld_curve_file' = curve
    /\ ld_two_file' = two
    /\ UNCHANGED <<ld_curve_out, ld_two_out, ld_inserted, notLd>>

\* a line is inserted in the power-curve file
InsertCurve(k, line) ==
    /\ ld_curve # <<>>
    /\ ld_curve_out = NotLoaded
    /\ Len(ld_curve_file) + Len(ld_two_file)
          < Len(ld_curve) + Len(ld_two) + MaxInserts
    /\ k \in 0..Len(ld_curve_file)
    /\ ld_curve_file' = InsertAt(ld_curve_file, k, line)
    /\ UNCHANGED <<ld_curve, ld_two, ld_two_file, ld_curve_out, ld_two_out,
                   ld_inserted, notLd>>

\* a line is inserted in the two-row file
InsertTwo(k, line) ==
    /\ ld_curve # <<>>
    /\ ld_curve_out = NotLoaded
    /\ Len(ld_curve_file) + Len(ld_two_file)
          < Len(ld_curve) + Len(ld_two) + MaxInserts
    /\ k \in 0..Len(ld_two_file)
    /\ ld_two_file' = InsertAt(ld_two_file, k, line)
    /\ ld_inserted' = ld_inserted \cup
                      {IF IsBlank(line) THEN "blank" ELSE "comment"}
    /\ UNCHANGED <<ld_curve, ld_two, ld_curve_file, ld_curve_out, ld_two_out,
                   notLd>>

\* load_v_to_w_curve and load_two_row_table read the files
Load ==
    /\ ld_curve # <<>>
    /\ ld_curve_out = NotLoaded
    /\ ld_curve_out' = load_v_to_w_curve(ld_curve_file)
    /\ ld_two_out' = load_two_row_table(ld_two_file)
    /\ UNCHANGED <<ld_curve, ld_two, ld_curve_file, ld_two_file, ld_inserted,
                   notLd>>

NextLoad ==
    \/ \E curve \in CurveFiles, two \in TwoRowFiles : WriteFiles(curve, two)
    \/ \E k \in 0..(3 + MaxInserts), line \in SkippedLines :
          InsertCurve(k, line)
    \/ \E k \in 0..(3 + MaxInserts), line \in SkippedLines :
          InsertTwo(k, line)
    \/ Load

SpecLoad == AllIdle /\ [][NextLoad]_vars

----------------------------------------------------------------------------
(* A BandSwitch driven through its methods *)

\* most calls made on the object after its construction
MaxBandCalls == 4

BandDeltas == {5, 10}

\* the pin levels the constructor finds: all LOW after power-on, or what an
\* earlier run of the program left
LatchStates ==
    { [i \in 1..NumBands |-> 0] } \cup
    { [i \in 1..NumBands |-> IF i = k THEN 1 ELSE 0] : k \in 1..NumBands }

\* the arguments given to set_index
IndexArgs == {-1, 1, NumBands}

\* BandSwitch(cfg), the pins at the levels of latch, the button at level
BandConstruct(latch, level) ==
    /\ bo_call = "none"
    /\ bo_self' = BandSwitchInit(level, bo_now)
    /\ bo_trace' = <<latch>> \o apply_outputs(latch, BandSwitchInit(level, bo_now).index)
    /\ bo_pins' = After(latch, apply_outputs(latch, BandSwitchInit(level, bo_now).index))
    /\ bo_call' = "init"
    /\ bo_event' = FALSE
    /\ bo_off' = FALSE
    /\ UNCHANGED <<bo_now, bo_calls, notBo>>

\* update(now_ms) d ms after the latest call, the button at level
BandUpdateCall(d, level) ==
    LET now_ms == ticks_add(bo_now, d)
        event  == BandPressEvent(bo_self, now_ms, level)
        self   == BandUpdate(bo_self, now_ms, level)
        writes == IF event THEN apply_outputs(bo_pins, self.index) ELSE <<>>
    IN  /\ bo_call # "none"
        /\ bo_calls < MaxBandCalls
        /\ bo_self' = self
        /\ bo_trace' = writes
        /\ bo_pins' = After(bo_pins, writes)
        /\ bo_now' = now_ms
        /\ bo_call' = "update"
        /\ bo_event' = event
        /\ bo_off' = (bo_off /\ ~event)
        /\ bo_calls' = bo_calls + 1
        /\ UNCHANGED notBo

\* set_index(idx)
BandSetIndex(idx) ==
    LET writes == apply_outputs(bo_pins, set_index(idx))
    IN  /\ bo_call # "none"
        /\ bo_calls < MaxBandCalls
        /\ bo_self' = [bo_self EXCEPT !.index = set_index(idx)]
        /\ bo_trace' = writes
        /\ bo_pins' = After(bo_pins, writes)
        /\ bo_call' = "set_index"
        /\ bo_event' = FALSE
        /\ bo_off' = FALSE
        /\ bo_calls' = bo_calls + 1
        /\ UNCHANGED <<bo_now, notBo>>

\* all_off()
BandAllOff ==
    /\ bo_call # "none"
    /\ bo_calls < MaxBandCalls
    /\ bo_trace' = all_off(bo_pins)
    /\ bo_pins' = After(bo_pins, all_off(bo_pins))
    /\ bo_call' = "all_off"
    /\ bo_event' = FALSE
    /\ bo_off' = TRUE
    /\ bo_calls' = bo_calls + 1
    /\ UNCHANGED <<bo_self, bo_now, notBo>>

NextBand ==
    \/ \E latch \in LatchStates, level \in {0, 1} : BandConstruct(latch, level)
    \/ \E d \in BandDeltas, level \in {0, 1} : BandUpdateCall(d, level)
    \/ \E idx \in IndexArgs : BandSetIndex(idx)
    \/ BandAllOff

SpecBand == AllIdle /\ [][NextBand]_vars

----------------------------------------------------------------------------
(* A Keyer polled by update *)

\* most updates of the Keyer
MaxKeyCalls == 5

KeyDeltas == {5, 10}

\* the debounce_ms given to the constructor (its default)
KeyDebounce == 10

Callbacks == {"none", "ok", "raises"}

\* Keyer(pin, active_low, debounce_ms=KeyDebounce, callback=callback), the
\* pin at level, shortly before the tick counter wraps
KeyerConstruct(active_low, callback, level) ==
    /\ ky_call = "none"
    /\ ky_self' = KeyerInit(active_low, KeyDebounce, callback, level, WrapStart)
    /\ ky_now' = WrapStart
    /\ ky_level' = level
    /\ ky_prev' = level
    /\ ky_held' = 0
    /\ ky_call' = "init"
    /\ UNCHANGED <<ky_was, ky_ret, ky_cb, ky_calls, notKy>>

\* update(now_ms) d ms after the latest call, the pin at level
KeyerUpdateCall(d, level) ==
    LET now_ms == ticks_add(ky_now, d)
        r      == KeyerUpdate(ky_self, now_ms, level)
    IN  /\ ky_call # "none"
        /\ ky_calls < MaxKeyCalls
        /\ ky_self' = r.self
        /\ ky_ret' = r.ret
        /\ ky_cb' = r.cb
        /\ ky_was' = is_active(ky_self)
        /\ ky_now' = now_ms
        /\ ky_prev' = ky_level
        /\ ky_level' = level
        /\ ky_held' = IF level = ky_level THEN ky_held + d ELSE 0
        /\ ky_call' = "update"
        /\ ky_calls' = ky_calls + 1
        /\ UNCHANGED notKy

NextKey ==
    \/ \E active_low \in BOOLEAN, callback \in Callbacks, level \in {0, 1} :
          KeyerConstruct(active_low, callback, level)
    \/ \E d \in KeyDeltas, level \in {0, 1} : KeyerUpdateCall(d, level)

SpecKey == AllIdle /\ [][NextKey]_vars

----------------------------------------------------------------------------
(* A Protection object driven by update *)

\* most updates of the Protection object
MaxProtCalls == 5

ProtDeltas == {10, 50}

\* telemetry fed to update: every key missing, over current, over voltage
ProtSnapshots == { EmptyTel, Tel(28, 10, 28, 100), Tel(36, 10, 28, 100) }

\* update(tel, now_ms, reset_level) d ms after the latest call
ProtUpdateCall(tel, d, reset_level) ==
    LET now_ms == ticks_add(pr_now, d)
        r      == ProtUpdate(pr_self, tel, now_ms, reset_level)
    IN  /\ pr_calls < MaxProtCalls
        /\ pr_self' = r.self
        /\ pr_ret' = r.ret
        /\ pr_now' = now_ms
        /\ pr_was' = pr_self.tripped
        /\ pr_latched' = IF ~pr_self.tripped /\ r.self.tripped
                         THEN r.self.last_reason ELSE pr_latched
        /\ pr_held' = IF ~reset_is_asserted(reset_level) THEN None
                      ELSE IF pr_held = None THEN 0
                      ELSE pr_held + d
        /\ pr_calls' = pr_calls + 1
        /\ UNCHANGED notPr

NextProt == \E tel \in ProtSnapshots, d \in ProtDeltas, reset_level \in {0, 1} :
               ProtUpdateCall(tel, d, reset_level)

SpecProt == AllIdle /\ [][NextProt]_vars

----------------------------------------------------------------------------
(* main.py: the protection output, the decision and the telemetry reads *)

PROTECT_ACTIVE_HIGH == FALSE

FAST_TELEM_MS == 10

SWR_AVG_WINDOW_MS == 100

THERM_TELEM_MS == 500

\* mutant: the output is written with the other polarity
ProtectLevelInverted(disable) ==
    IF PROTECT_ACTIVE_HIGH THEN (IF disable THEN 0 ELSE 1)
    ELSE (IF disable THEN 1 ELSE 0)

\* the level written to protect_out for a value of disable
ProtectLevel(disable) ==
    IF PROTECT_ACTIVE_HIGH THEN (IF disable THEN 1 ELSE 0)
    ELSE (IF disable THEN 0 ELSE 1)

\* latest as the program initialises it (the keys AmpControl.update reads)
LatestInit == WithTemp(Tel(0, 0, 0, 0), 0)

\* state as the program initialises it
StateInit ==
    [ disable |-> TRUE, amp_enabled |-> FALSE, tripped |-> FALSE,
      reason |-> "OK", band_idx |-> 0 ]

\* the decision with the key band_idx added
WithBand(d, idx) ==
    [ disable |-> d.disable, amp_enabled |-> d.amp_enabled,
      tripped |-> d.tripped, reason |-> d.reason, band_idx |-> idx ]

\* a snapshot with some keys replaced
Updated(tel, new) ==
    [k \in DOMAIN tel |-> IF k \in DOMAIN new THEN new[k] ELSE tel[k]]

\* the tick counter's value when the timers are taken
BootTicks == {0, TICKS_PERIOD - 4}

\* time from taking the timers to a pass, and from one pass to the next
PassDeltas == {0, 5, 10, 100, 500}

\* the readings of the three fast channels
FastReads ==
    { [vDrain |-> 28, iDrain |-> 0, vcc |-> 28],
      [vDrain |-> 36, iDrain |-> 10, vcc |-> 28] }

\* the forward power swr.compute returns
RfReads == { [pfwd_w |-> 0], [pfwd_w |-> 100] }

\* the temperature read
ThermReads == { [temp_c |-> 25], [temp_c |-> 45] }

\* protect_out = Pin(PROTECT_GPIO, Pin.OUT): the pin becomes an output at
\* the level its latch holds
MakePin(latch) ==
    /\ mn_pc = "idle"
    /\ mn_pc' = "pin"
    /\ mn_out' = latch
    /\ UNCHANGED <<mn_ctrl, mn_bands, mn_state, mn_latest, mn_now, mn_t,
                   mn_acquired, mn_passes, notMn>>

\* bands, reset_in and ctrl are constructed, the output is written, the
\* timers are taken, latest and state are initialised
Boot(t, band_level) ==
    /\ mn_pc = "pin"
    /\ mn_pc' = "booted"
    /\ mn_bands' = BandSwitchInit(band_level, t)
    /\ mn_ctrl' = AmpControlInit
    /\ mn_out' = ProtectLevel(TRUE)
    /\ mn_t' = [fast |-> t, swr |-> t, therm |-> t]
    /\ mn_now' = t
    /\ mn_latest' = LatestInit
    /\ mn_state' = StateInit
    /\ UNCHANGED <<mn_acquired, mn_passes, notMn>>

\* the fast loop of a pass: bands.update, ctrl.update, the output write
Drive(d, band_level, reset_level) ==
    LET now_ms == ticks_add(mn_now, d)
        bands  == BandUpdate(mn_bands, now_ms, band_level)
        self   == AmpUpdate(mn_ctrl, mn_latest, now_ms, reset_level)
        state  == WithBand(Decision(self), bands.index)
    IN  /\ mn_pc = "booted"
        /\ mn_pc' = "driven"
        /\ mn_now' = now_ms
        /\ mn_bands' = bands
        /\ mn_ctrl' = self
        /\ mn_state' = state
        /\ mn_out' = ProtectLevel(state.disable)
        /\ mn_acquired' = FALSE
        /\ mn_passes' = mn_passes + 1
        /\ UNCHANGED <<mn_latest, mn_t, notMn>>

\* fast telemetry, read when due
FastTelemetry(r) ==
    LET due == ticks_diff(mn_now, mn_t.fast) >= FAST_TELEM_MS
    IN  /\ mn_pc = "driven"
        /\ mn_pc' = "fast"
        /\ mn_t' = IF due THEN [mn_t EXCEPT !.fast = mn_now] ELSE mn_t
        /\ mn_latest' = IF due THEN Updated(mn_latest, r) ELSE mn_latest
        /\ mn_acquired' = (mn_acquired \/ due)
        /\ UNCHANGED <<mn_out, mn_ctrl, mn_bands, mn_state, mn_now,
                       mn_passes, notMn>>

\* RF telemetry, computed when due
RfTelemetry(r) ==
    LET due == ticks_diff(mn_now, mn_t.swr) >= SWR_AVG_WINDOW_MS
    IN  /\ mn_pc = "fast"
        /\ mn_pc' = "rf"
        /\ mn_t' = IF due THEN [mn_t EXCEPT !.swr = mn_now] ELSE mn_t
        /\ mn_latest' = IF due THEN Updated(mn_latest, r) ELSE mn_latest
        /\ mn_acquired' = (mn_acquired \/ due)
        /\ UNCHANGED <<mn_out, mn_ctrl, mn_bands, mn_state, mn_now,
                       mn_passes, notMn>>

\* thermal telemetry, read when due
ThermTelemetry(r) ==
    LET due == ticks_diff(mn_now, mn_t.therm) >= THERM_TELEM_MS
    IN  /\ mn_pc = "rf"
        /\ mn_pc' = "thermal"
        /\ mn_t' = IF due THEN [mn_t EXCEPT !.therm = mn_now] ELSE mn_t
        /\ mn_latest' = IF due THEN Updated(mn_latest, r) ELSE mn_latest
        /\ mn_acquired' = (mn_acquired \/ due)
        /\ UNCHANGED <<mn_out, mn_ctrl, mn_bands, mn_state, mn_now,
                       mn_passes, notMn>>

\* the LCD test names dc, which main.py never binds: NameError ends the
\* program, the pins stay as they are
LcdUpdate ==
    /\ mn_pc = "thermal"
    /\ mn_pc' = "raised"
    /\ UNCHANGED <<mn_out, mn_ctrl, mn_bands, mn_state, mn_latest, mn_now,
                   mn_t, mn_acquired, mn_passes, notMn>>

NextMain ==
    \/ \E latch \in {0, 1} : MakePin(latch)
    \/ \E t \in BootTicks, band_level \in {0, 1} : Boot(t, band_level)
    \/ \E d \in PassDeltas, band_level \in {0, 1}, reset_level \in {0, 1} :
          Drive(d, band_level, reset_level)
    \/ \E r \in FastReads : FastTelemetry(r)
    \/ \E r \in RfReads : RfTelemetry(r)
    \/ \E r \in ThermReads : ThermTelemetry(r)
    \/ LcdUpdate

SpecMain == AllIdle /\ [][NextMain]_vars

----------------------------------------------------------------------------
(* An AmpControl object under faults that persist *)

\* most updates made on the object
MaxHoldCalls == 5

HoldDeltas == {10, 50, 5000}

\* no fault; over current; overtemp
HoldSnapshots ==
    { WithTemp(Tel(28, 0, 28, 0), 25),
      WithTemp(Tel(28, 10, 28, 100), 25),
      WithTemp(Tel(28, 0, 28, 0), 45) }

\* the time a condition has held on every update, d ms after an update at
\* which it had held for span; counted up to limit
Held(holds, span, d, limit) ==
    IF ~holds THEN None
    ELSE IF span = None THEN 0
    ELSE Min(span + d, limit)

\* update(tel, now_ms, level) d ms after the latest call
HoldUpdate(tel, d, level) ==
    LET now_ms == ticks_add(ho_now, d)
        self   == AmpUpdate(ho_ctrl, tel, now_ms, level)
        fault  == FaultReason(tel).is_fault
        hot    == Overtemp(tel)
        clear  == /\ AmpUpdateEvent(ho_ctrl, tel, now_ms, level)
                  /\ (ho_ctrl.tripped \/ AmpUpdateLatched(ho_ctrl, tel, now_ms))
    IN  /\ ho_calls < MaxHoldCalls
        /\ ho_ctrl' = self
        /\ ho_now' = now_ms
        /\ ho_decision' = Decision(self)
        /\ ho_fault' = Held(fault, ho_fault, d, PROTECT_TRIP_DEBOUNCE_MS)
        /\ ho_therm' = Held(hot, ho_therm, d, PROTECT_THERM_DEBOUNCE_MS)
        /\ ho_cleared' = IF ~(fault \/ hot) THEN FALSE
                         ELSE IF (fault /\ ho_fault = None /\ ~hot)
                                 \/ (hot /\ ho_therm = None /\ ~fault)
                              THEN FALSE
                         ELSE (ho_cleared \/ clear)
        /\ ho_calls' = ho_calls + 1
        /\ UNCHANGED notHo

NextHold == \E tel \in HoldSnapshots, d \in HoldDeltas, level \in {0, 1} :
               HoldUpdate(tel, d, level)

SpecHold == AllIdle /\ [][NextHold]_vars

----------------------------------------------------------------------------
(* An AmpControl object under electrical faults of changing kind and     *)
(* overtemp                                                              *)

\* most updates made on the object
MaxKindCalls == 3

KindDeltas == {10, 50, 5000}

\* no fault; VDRAIN_OV; IDRAIN_OC with overtemp; FWD_LOW_VS_VI; overtemp
\* alone
KindSnapshots ==
    { WithTemp(Tel(28, 0, 28, 0), 25),
      WithTemp(Tel(36, 0, 28, 0), 25),
      WithTemp(Tel(28, 10, 28, 100), 45),
      WithTemp(Tel(28, 2, 5, 2), 25),
      WithTemp(Tel(28, 0, 28, 0), 45) }

\* update(tel, now_ms, level) d ms after the latest call
KindUpdate(tel, d, level) ==
    LET now_ms == ticks_add(sh_now, d)
        fr     == FaultReason(tel)
        s1     == FastStep(sh_ctrl, fr, now_ms)
        s2     == ThermStep(s1, Overtemp(tel), now_ms)
        self   == AmpUpdate(sh_ctrl, tel, now_ms, level)
    IN  /\ sh_calls < MaxKindCalls
        /\ sh_ctrl' = self
        /\ sh_now' = now_ms
        /\ sh_decision' = Decision(self)
        /\ sh_kind' = fr.reason
        /\ sh_prev' = sh_kind
        /\ sh_was' = sh_ctrl.tripped
        /\ sh_start' = sh_ctrl.fault_start_ms
        /\ sh_tstart' = sh_ctrl.therm_start_ms
        /\ sh_hot' = Overtemp(tel)
        /\ sh_stored' = s1.last_reason
        /\ sh_latched' = IF s1.tripped /\ ~sh_ctrl.tripped THEN "fast"
                         ELSE IF s2.tripped /\ ~s1.tripped THEN "therm"
                         ELSE "none"
        /\ sh_event' = AmpUpdateEvent(sh_ctrl, tel, now_ms, level)
        /\ sh_calls' = sh_calls + 1
        /\ UNCHANGED notSh

NextKind == \E tel \in KindSnapshots, d \in KindDeltas, level \in {0, 1} :
               KindUpdate(tel, d, level)

SpecKind == AllIdle /\ [][NextKind]_vars

----------------------------------------------------------------------------
(* An AmpControl object updated for ever under a fault that holds *)

\* most updates made before the fault begins to hold
MaxFreeCalls == 2

\* most updates made once the latch is set
MaxAfter == 1

\* time between updates, always advancing
LiveDeltas == {10, 50}

\* no fault; IDRAIN_OC
LiveSnapshots ==
    { WithTemp(Tel(28, 0, 28, 0), 25),
      WithTemp(Tel(28, 10, 28, 100), 25) }

\* the snapshots _fault_reason finds a fault in
FaultySnapshots == { tel \in LiveSnapshots : FaultReason(tel).is_fault }

\* update(tel, now_ms, level) d ms after the latest call, before the fault
\* begins to hold
FreeUpdate(tel, d, level) ==
    LET now_ms == ticks_add(lv_now, d)
        self   == AmpUpdate(lv_ctrl, tel, now_ms, level)
    IN  /\ ~lv_held
        /\ lv_calls < MaxFreeCalls
        /\ lv_ctrl' = self
        /\ lv_now' = now_ms
        /\ lv_decision' = Decision(self)
        /\ lv_calls' = lv_calls + 1
        /\ UNCHANGED <<lv_held, lv_span, lv_latches, lv_after, notLv>>

\* update(tel, now_ms, level) d ms after the latest call, tel with an
\* electrical fault, the level such that the call has no press event
HeldUpdate(tel, d, level) ==
    LET now_ms == ticks_add(lv_now, d)
        self   == AmpUpdate(lv_ctrl, tel, now_ms, level)
    IN  /\ lv_ctrl.tripped => lv_after < MaxAfter
        /\ ~AmpUpdateEvent(lv_ctrl, tel, now_ms, level)
        /\ lv_ctrl' = self
        /\ lv_now' = now_ms
        /\ lv_decision' = Decision(self)
        /\ lv_held' = TRUE
        /\ lv_span' = IF ~lv_held THEN 0
                      ELSE Min(lv_span + d, PROTECT_TRIP_DEBOUNCE_MS)
        /\ lv_latches' = IF self.tripped /\ ~lv_ctrl.tripped
                         THEN lv_latches + 1 ELSE lv_latches
        /\ lv_after' = IF lv_ctrl.tripped THEN lv_after + 1 ELSE lv_after
        /\ UNCHANGED <<lv_calls, notLv>>

Free == \E tel \in LiveSnapshots, d \in LiveDeltas, level \in {0, 1} :
           FreeUpdate(tel, d, level)

Kept == \E tel \in FaultySnapshots, d \in LiveDeltas, level \in {0, 1} :
           HeldUpdate(tel, d, level)

NextLive == Free \/ Kept

\* the main loop never stops calling update
SpecLive == AllIdle /\ [][NextLive]_vars /\ WF_vars(Kept)

----------------------------------------------------------------------------
(* Properties of AmpControl.update *)

pressed_event == press_action # "none"

IsFault(tel) == FaultReason(tel).is_fault

FaultFree(tel) == ~IsFault(tel) /\ ~Overtemp(tel)

\* C1: every decision returned by update has
\* disable = (not amp_enabled) or tripped, with amp_enabled and tripped equal
\* to the stored control state at the end of that call.
Thm_C1 ==
    decision # NoDecision =>
        /\ decision.disable = ((~decision.amp_enabled) \/ decision.tripped)
        /\ decision.amp_enabled = ctrl.amp_enabled
        /\ decision.tripped = ctrl.tripped

Wit_C1 ==
    /\ nupdates >= 3
    /\ decision.reason # "none"
    /\ decision.tripped
    /\ decision.disable

\* C2: once tripped is true at the end of an update it is true at the end of
\* every later update, whatever the telemetry, until an update with a press
\* event.
Thm_C2 == [][(ctrl.tripped /\ press_action' = "none") => ctrl'.tripped]_vars

Wit_C2 ==
    /\ ctrl.tripped
    /\ latched = "none"
    /\ FaultFree(telemetry)
    /\ press_action = "none"

\* C3: an update with a press event while the latch is set ends with
\* tripped = false, last_reason = OK, both debounce timers unset and
\* amp_enabled = false; amp_enabled becomes true only in an update that has a
\* press event of its own and no latch to clear.
Thm_C3 ==
    [][ /\ (press_action' = "clear" <=>
              (press_action' # "none" /\ (ctrl.tripped \/ latched' # "none")))
        /\ (press_action' = "clear" =>
              /\ ~ctrl'.tripped
              /\ ctrl'.last_reason = "OK"
              /\ ctrl'.fault_start_ms = None
              /\ ctrl'.therm_start_ms = None
              /\ ~ctrl'.amp_enabled)
        /\ ((~ctrl.amp_enabled /\ ctrl'.amp_enabled) =>
              press_action' = "toggle") ]_vars

Wit_C3 ==
    /\ press_action = "clear"
    /\ latched = "none"
    /\ ~ctrl.tripped
    /\ ~ctrl.amp_enabled

\* C4: if drain current is above its max (drain voltage not above its max) on
\* every update over a span of at least the fast debounce duration that
\* started from a non-tripped control, the update at the end of the span
\* returns tripped, amp_enabled = false, disable and reason IDRAIN_OC,
\* whatever the button levels.
CE_C4 ==
    (oc_span # None /\ oc_span >= PROTECT_TRIP_DEBOUNCE_MS) =>
        /\ decision.tripped
        /\ ~decision.amp_enabled
        /\ decision.disable
        /\ decision.reason = "IDRAIN_OC"

\* C5 as claimed: a new AmpControl has amp_enabled = false and tripped =
\* false, every decision before the first press event has amp_enabled = false
\* and disable = true, and the first press event, in an update with
\* fault-free telemetry, gives amp_enabled = true and disable = false.
CE_C5 ==
    /\ (nupdates = 0 => (~ctrl.amp_enabled /\ ~ctrl.tripped))
    /\ ((nupdates > 0 /\ npresses = 0) =>
            (~decision.amp_enabled /\ decision.disable))
    /\ ((pressed_event /\ npresses = 1 /\ FaultFree(telemetry)) =>
            (decision.amp_enabled /\ ~decision.disable))

\* C5 as amended: ... the first press event, in an update with fault-free
\* telemetry and the latch not set, gives amp_enabled = true and disable =
\* false; with the latch set it clears the latch and leaves amp_enabled =
\* false and disable = true.
Thm_C5 ==
    /\ (nupdates = 0 => (~ctrl.amp_enabled /\ ~ctrl.tripped))
    /\ ((nupdates > 0 /\ npresses = 0) =>
            (~decision.amp_enabled /\ decision.disable))
    /\ ((press_action = "toggle" /\ npresses = 1 /\ FaultFree(telemetry)) =>
            (decision.amp_enabled /\ ~decision.disable))
    /\ ((press_action = "clear" /\ npresses = 1) =>
            (~decision.amp_enabled /\ decision.disable /\ ~decision.tripped))

Wit_C5 ==
    /\ press_action = "toggle"
    /\ npresses = 1
    /\ FaultFree(telemetry)
    /\ decision.amp_enabled
    /\ ~decision.disable

\* C6: amp_enabled changes only in an update with a press event (toggled
\* when the latch is not set, forced false when it is cleared) or one that
\* latches a trip (forced false); an update with no press event and no new
\* latch leaves amp_enabled, tripped and last_reason unchanged.
Thm_C6 ==
    [][ /\ (ctrl'.amp_enabled # ctrl.amp_enabled =>
              (press_action' # "none" \/ latched' # "none"))
        /\ (press_action' = "toggle" =>
              ctrl'.amp_enabled = ~ctrl.amp_enabled)
        /\ ((press_action' = "clear" \/ latched' # "none") =>
              ~ctrl'.amp_enabled)
        /\ ((press_action' = "none" /\ latched' = "none") =>
              /\ ctrl'.amp_enabled = ctrl.amp_enabled
              /\ ctrl'.tripped = ctrl.tripped
              /\ ctrl'.last_reason = ctrl.last_reason) ]_vars

Wit_C6 ==
    /\ ctrl.amp_enabled
    /\ press_action = "none"
    /\ latched = "none"
    /\ IsFault(telemetry)
    /\ Overtemp(telemetry)

----------------------------------------------------------------------------
(* Properties of AmpControl._fault_reason *)

OverVoltage(tel) == Get(tel, "vDrain", 0) > PROTECT_VDRAIN_MAX_V

OverCurrent(tel) == Get(tel, "iDrain", 0) > PROTECT_IDRAIN_MAX_A

\* the forward-power-low condition taken by itself
ForwardLow(tel) ==
    /\ Get(tel, "iDrain", 0) >= PROTECT_MIN_I_FOR_EFF_A
    /\ Get(tel, "vcc", 0) * Get(tel, "iDrain", 0) >= PROTECT_MIN_TOTAL_POWER_W
    /\ Get(tel, "pfwd_w", 0) * FWD_MIN_FRACTION_DEN
          < FWD_MIN_FRACTION_NUM * Get(tel, "vcc", 0) * Get(tel, "iDrain", 0)

\* C7: telemetry above both the drain-voltage max and the drain-current max
\* is evaluated as VDRAIN_OV, never IDRAIN_OC, and that kind is the one
\* recorded when the evaluation latches; exactly one kind is evaluated, the
\* first matching in the order overvoltage, overcurrent, forward-power-low.
Thm_C7 ==
    fr_out # NoResult =>
        /\ ((OverVoltage(fr_tel) /\ OverCurrent(fr_tel)) =>
                (fr_out.reason = "VDRAIN_OV" /\ fr_rec = "VDRAIN_OV"))
        /\ fr_out.reason =
             (IF OverVoltage(fr_tel) THEN "VDRAIN_OV"
              ELSE IF OverCurrent(fr_tel) THEN "IDRAIN_OC"
              ELSE IF ForwardLow(fr_tel) THEN "FWD_LOW_VS_VI"
              ELSE "OK")
        /\ fr_out.is_fault = (fr_out.reason # "OK")
        /\ fr_rec = fr_out.reason

Wit_C7 ==
    /\ fr_out # NoResult
    /\ OverVoltage(fr_tel)
    /\ OverCurrent(fr_tel)
    /\ ForwardLow(fr_tel)
    /\ fr_out.reason = "VDRAIN_OV"

\* C8: _fault_reason reports FWD_LOW_VS_VI exactly when drain voltage <= max,
\* drain current <= max, drain current >= the minimum for the check,
\* vcc * drain current >= the minimum total power and forward power is
\* below the fraction of vcc * drain current; a drain voltage or current
\* equal to its max, or a forward power equal to the minimum, is no fault.
Thm_C8 ==
    fr_out # NoResult =>
        LET v == Get(fr_tel, "vDrain", 0)
            i == Get(fr_tel, "iDrain", 0)
            c == Get(fr_tel, "vcc", 0)
            p == Get(fr_tel, "pfwd_w", 0)
        IN  /\ (fr_out.reason = "FWD_LOW_VS_VI") <=>
                  /\ v <= PROTECT_VDRAIN_MAX_V
                  /\ i <= PROTECT_IDRAIN_MAX_A
                  /\ i >= PROTECT_MIN_I_FOR_EFF_A
                  /\ c * i >= PROTECT_MIN_TOTAL_POWER_W
                  /\ p * FWD_MIN_FRACTION_DEN < FWD_MIN_FRACTION_NUM * (c * i)
            /\ (v = PROTECT_VDRAIN_MAX_V => fr_out.reason # "VDRAIN_OV")
            /\ ((v <= PROTECT_VDRAIN_MAX_V /\ i = PROTECT_IDRAIN_MAX_A) =>
                  fr_out.reason # "IDRAIN_OC")
            /\ ((v <= PROTECT_VDRAIN_MAX_V /\ i <= PROTECT_IDRAIN_MAX_A
                 /\ p * FWD_MIN_FRACTION_DEN = FWD_MIN_FRACTION_NUM * (c * i))
                  => ~fr_out.is_fault)

Wit_C8 ==
    /\ fr_out # NoResult
    /\ fr_tel = Tel(35, 9, 28, 63)
    /\ ~fr_out.is_fault

----------------------------------------------------------------------------
(* Properties of the two debounce timers *)

\* C9: while not tripped, an electrical fault latches only in an update that
\* evaluates a fault, whose fast timer was started in an earlier update, with
\* a fault evaluated on every update since, and now minus the start stamp >=
\* the fast debounce duration; a not-tripped update that evaluates no fault
\* leaves the fast timer unset.
Thm_C9 ==
    [][ /\ (latched' = "fast" =>
              /\ ~ctrl.tripped
              /\ IsFault(telemetry')
              /\ ctrl.fault_start_ms # None
              /\ ~fault_gap
              /\ ticks_diff(now', ctrl.fault_start_ms)
                    >= PROTECT_TRIP_DEBOUNCE_MS)
        /\ ((~ctrl.tripped /\ ctrl'.tripped /\ ctrl'.last_reason # "THERM_OT")
              => latched' = "fast")
        /\ ((~ctrl.tripped /\ ~IsFault(telemetry')) =>
              ctrl'.fault_start_ms = None) ]_vars

Wit_C9 ==
    /\ latched = "fast"
    /\ ctrl.tripped
    /\ ctrl.last_reason = "FWD_LOW_VS_VI"
    /\ nupdates >= 4

\* C10: while not tripped, THERM_OT latches only in an update with the
\* temperature present and >= the max, as on every update since the thermal
\* timer was started, and elapsed >= the thermal debounce duration; an update
\* with the temperature absent or below max, or with the latch set after
\* step 1, ends with the thermal timer unset; in an update that starts not
\* tripped and latches nothing each timer follows its own condition only.
Thm_C10 ==
    [][ /\ (latched' = "therm" =>
              /\ ~ctrl.tripped
              /\ Overtemp(telemetry')
              /\ ctrl.therm_start_ms # None
              /\ ~therm_gap
              /\ ticks_diff(now', ctrl.therm_start_ms)
                    >= PROTECT_THERM_DEBOUNCE_MS)
        /\ ((~ctrl.tripped /\ ctrl'.tripped /\ ctrl'.last_reason = "THERM_OT")
              => latched' = "therm")
        /\ ((~Overtemp(telemetry') \/ ctrl.tripped \/ latched' = "fast") =>
              ctrl'.therm_start_ms = None)
        /\ ((~ctrl.tripped /\ latched' = "none") =>
              /\ ctrl'.therm_start_ms =
                   (IF ~Overtemp(telemetry') THEN None
                    ELSE IF ctrl.therm_start_ms = None THEN now'
                    ELSE ctrl.therm_start_ms)
              /\ ctrl'.fault_start_ms =
                   (IF ~IsFault(telemetry') THEN None
                    ELSE IF ctrl.fault_start_ms = None THEN now'
                    ELSE ctrl.fault_start_ms)) ]_vars

Wit_C10 ==
    /\ latched = "therm"
    /\ ctrl.tripped
    /\ ctrl.last_reason = "THERM_OT"
    /\ ~IsFault(telemetry)

----------------------------------------------------------------------------
(* Properties of the button debouncers *)

\* C11: once _debounced_button_event has returned True it returns False on
\* every later call until a call has seen the level inactive and unchanged
\* for the debounce duration (and the level is then settled active again)
CE_C11 == [][amp_event' => btn_phase # "fired"]_vars

\* C12: an event is returned only by a call that sees the level of the
\* previous call, active, unchanged for at least RESET_DEBOUNCE_MS (so never
\* by the first call nor by a call that sees the level change), and it is
\* returned by the first call at which an active level has stayed unchanged
\* for RESET_DEBOUNCE_MS
Thm_C12 ==
    [][ /\ amp_event' =>
            /\ nobs >= 1
            /\ btn_level' = btn_level
            /\ btn_is_pressed(btn_level')
            /\ btn_held' >= RESET_DEBOUNCE_MS
        /\ ( /\ nobs >= 1
             /\ btn_level' = btn_level
             /\ btn_is_pressed(btn_level')
             /\ btn_held < RESET_DEBOUNCE_MS
             /\ btn_held' >= RESET_DEBOUNCE_MS ) => amp_event'
      ]_vars

\* an event returned for a press that began after the first call
Wit_C12 ==
    /\ amp_event
    /\ btn_phase = "fired"
    /\ btn_held >= RESET_DEBOUNCE_MS
    /\ nobs >= 4

\* C13: on the same observations AmpControl._debounced_button_event and
\* BandSwitch._debounced_press_event return True in the same calls
CE_C13 == amp_event = band_event

----------------------------------------------------------------------------
(* Properties of the elapsed-time comparisons *)

\* the stamp is set in both objects or in neither, and the wrap-safe
\* difference from the wrapped stamp is the time that has really passed
SameElapsed(w_stamp, u_stamp) ==
    /\ (w_stamp = None) <=> (u_stamp = None)
    /\ w_stamp # None => ticks_diff(w_now, w_stamp) = u_now - u_stamp

\* C14: with wrapped stamps every running timer's elapsed time (fast fault
\* timer, thermal timer, button debounce) is the time that has really
\* passed, so each update latches, returns a press event and returns the
\* decision exactly as it does with stamps that never wrap; from the stamp
\* TICKS_PERIOD - 2 to the stamp 0 the elapsed time is 2
Thm_C14 ==
    /\ Decision(w_ctrl) = Decision(u_ctrl)
    /\ w_event = u_event
    /\ w_latched = u_latched
    /\ ~w_ctrl.tripped =>
          /\ SameElapsed(w_ctrl.fault_start_ms, u_ctrl.fault_start_ms)
          /\ SameElapsed(w_ctrl.therm_start_ms, u_ctrl.therm_start_ms)
    /\ SameElapsed(w_ctrl.btn_last_change_ms, u_ctrl.btn_last_change_ms)
    /\ ( /\ w_now = 0
         /\ ~w_ctrl.tripped
         /\ w_ctrl.fault_start_ms = TICKS_PERIOD - 2 )
       => ticks_diff(w_now, w_ctrl.fault_start_ms) = 2

\* an update after the wrap latches on a timer started before the wrap
Wit_C14 ==
    /\ w_latched
    /\ w_ctrl.fault_start_ms > w_now
    /\ w_ctrl.fault_start_ms = TICKS_PERIOD - 2

----------------------------------------------------------------------------
(* Properties of update on incomplete telemetry *)

\* the mapping t with 0 written for each electrical key it lacks
FillElectrical(t) ==
    [k \in DOMAIN t \cup {"vDrain", "iDrain", "vcc", "pfwd_w"} |->
        IF k \in DOMAIN t THEN t[k] ELSE 0]

\* C15: update returns its decision for every mapping, whatever keys are
\* missing; the electrical evaluation is the one of the mapping with 0 for
\* each missing electrical key, a missing temperature is no overtemp; on the
\* empty mapping there is no electrical fault and no overtemp and, unless
\* the object is tripped, both debounce timers are unset after the call
Thm_C15 ==
    tl_out # NoResult =>
        /\ DOMAIN tl_out.decision = {"disable", "amp_enabled", "tripped", "reason"}
        /\ tl_out.fault = FaultReason(FillElectrical(tl_tel))
        /\ "temp_c" \notin DOMAIN tl_tel => ~tl_out.overtemp
        /\ tl_tel = EmptyTel =>
              /\ ~tl_out.fault.is_fault
              /\ ~tl_out.overtemp
              /\ ~tl_out.obj.tripped =>
                    /\ tl_out.obj.fault_start_ms = None
                    /\ tl_out.obj.therm_start_ms = None

\* an update on the empty mapping of an object whose two timers were running
Wit_C15 ==
    /\ tl_out # NoResult
    /\ tl_tel = EmptyTel
    /\ tl_self.fault_start_ms # None
    /\ tl_self.therm_start_ms # None
    /\ ~tl_self.tripped
    /\ ~tl_out.obj.tripped

----------------------------------------------------------------------------
(* Properties of the returned reason *)

\* the reason strings of control.py, one for each fault kind
FaultKinds == {"OK", "VDRAIN_OV", "IDRAIN_OC", "FWD_LOW_VS_VI", "THERM_OT"}

\* C16: the reason of every returned decision is one of the five kinds and
\* is OK exactly when tripped is false; at the end of every update tripped
\* holds iff last_reason is not OK; the update that latches returns the kind
\* it evaluated, and the reason stays the same while the latch stays set
Thm_C16 ==
    [][ /\ decision'.reason \in FaultKinds
        /\ (decision'.reason = "OK") <=> ~decision'.tripped
        /\ ctrl'.tripped <=> (ctrl'.last_reason # "OK")
        /\ ctrl'.tripped => decision'.reason = ctrl'.last_reason
        /\ (latched' = "fast" /\ ctrl'.tripped) =>
              /\ decision'.reason = FaultReason(telemetry').reason
              /\ decision'.reason \in {"VDRAIN_OV", "IDRAIN_OC", "FWD_LOW_VS_VI"}
        /\ (latched' = "therm" /\ ctrl'.tripped) =>
              decision'.reason = "THERM_OT"
        /\ (ctrl.tripped /\ ctrl'.tripped) =>
              decision'.reason = decision.reason
      ]_vars

\* a thermal latch that an update after the latching one has left set
Wit_C16 ==
    /\ ctrl.tripped
    /\ latched = "none"
    /\ decision.reason = "THERM_OT"

----------------------------------------------------------------------------
(* Properties of PiecewiseLinear.interp, stated on the lists given to the  *)
(* constructor                                                             *)

\* an interp call has been made on an accepted table
Asked == pl_q # NoFloat

\* a < b
FLess(a, b) == FLe(a, b) /\ a # b

\* the positions of the points whose x is v
At(v) == {i \in 1..Len(pl_x) : pl_x[i] = v}

\* the first and the last listed point whose x is v
FirstAt(v) == CHOOSE i \in At(v) : \A j \in At(v) : i <= j

LastAt(v) == CHOOSE i \in At(v) : \A j \in At(v) : j <= i

\* v is the smallest, the largest x of the table
IsMinX(v) == \A j \in 1..Len(pl_x) : FLe(v, pl_x[j])

IsMaxX(v) == \A j \in 1..Len(pl_x) : FLe(pl_x[j], v)

\* the largest x of the table below v
XBelow(v) ==
    CHOOSE u \in {pl_x[j] : j \in 1..Len(pl_x)} :
        /\ FLess(u, v)
        /\ \A j \in 1..Len(pl_x) : FLess(pl_x[j], v) => FLe(pl_x[j], u)

\* the difference a - b is a float: the subtraction does not round
ExactDiff(a, b) ==
    LET e == Min(a[2], b[2])
        m == a[1] * 2^(a[2] - e) - b[1] * 2^(b[2] - e)
        r == FSub(a, b)
    IN  IF r[2] >= e THEN r[1] * 2^(r[2] - e) = m
                     ELSE r[1] = m * 2^(e - r[2])

\* C17: interp at the x of any control point returns that point's y
CE_C17 ==
    Asked => \A i \in 1..Len(pl_x) : pl_x[i] = pl_q => pl_swr_out = pl_y[i]

\* C17, amended: interp at the x of a control point returns the y of the
\* first listed point with that x if x is the smallest x, the y of the last
\* listed point with that x if x is the largest x, and otherwise
\* yp + 1 * (yf - yp) in floating point, for the first listed point f with
\* that x and the last listed point p with the next smaller x: this is yf
\* whenever yf - yp is a float
Thm_C17 ==
    (Asked /\ At(pl_q) # {}) =>
        IF IsMinX(pl_q) THEN pl_swr_out = pl_y[FirstAt(pl_q)]
        ELSE IF IsMaxX(pl_q) THEN pl_swr_out = pl_y[LastAt(pl_q)]
        ELSE LET yf == pl_y[FirstAt(pl_q)]
                 yp == pl_y[LastAt(XBelow(pl_q))]
             IN  /\ pl_swr_out = FAdd(yp, FMul(FromInt(1), FSub(yf, yp)))
                 /\ ExactDiff(yf, yp) => pl_swr_out = yf

\* a query at an x that two points with different y have, strictly inside
\* the table, where the value returned is not the y of the first of them
Wit_C17 ==
    /\ Asked
    /\ ~IsMinX(pl_q)
    /\ ~IsMaxX(pl_q)
    /\ Cardinality(At(pl_q)) >= 2
    /\ pl_y[FirstAt(pl_q)] # pl_y[LastAt(pl_q)]
    /\ pl_swr_out # pl_y[FirstAt(pl_q)]

\* segment i of the sorted table brackets the query
Brackets(tab, i, xq) == FLe(tab.x[i], xq) /\ FLe(xq, tab.x[i + 1])

\* the reference function on the sorted table: clamped at both ends, and the
\* line through the two points of the first segment that brackets the query
RefInterp(tab, xq) ==
    LET n == Len(tab.x)
    IN  IF FLe(xq, tab.x[1]) THEN tab.y[1]
        ELSE IF FLe(tab.x[n], xq) THEN tab.y[n]
        ELSE LET i  == CHOOSE i \in 1..(n - 1) :
                           /\ Brackets(tab, i, xq)
                           /\ \A j \in 1..(i - 1) : ~Brackets(tab, j, xq)
                 x0 == tab.x[i]
                 x1 == tab.x[i + 1]
                 y0 == tab.y[i]
                 y1 == tab.y[i + 1]
             IN  FAdd(y0, FMul(FDiv(FSub(xq, x0), FSub(x1, x0)), FSub(y1, y0)))

\* xq is exactly halfway between a and b
Halfway(a, xq, b) ==
    LET e == Min(Min(a[2], b[2]), xq[2])
    IN  2 * xq[1] * 2^(xq[2] - e) = a[1] * 2^(a[2] - e) + b[1] * 2^(b[2] - e)

\* the segments of the sorted table, x0 < x1, the query is exactly halfway in
MidSegments(tab, xq) ==
    {i \in 1..(Len(tab.x) - 1) :
        /\ FLess(tab.x[i], tab.x[i + 1])
        /\ Halfway(tab.x[i], xq, tab.x[i + 1])}

\* the float nearest to (a + b) / 2
Mean(a, b) ==
    LET e == Min(a[2], b[2])
        m == a[1] * 2^(a[2] - e) + b[1] * 2^(b[2] - e)
    IN  Fl(Sgn(m), Abs(m), e - 1)

\* 0.5
Half == Fl(1, 1, -1)

\* C18: interp is the reference function on the sorted table, and a query
\* exactly halfway between two adjacent knots returns the arithmetic mean of
\* their y values
CE_C18 ==
    Asked =>
        /\ pl_swr_out = RefInterp(pl_swr, pl_q)
        /\ \A i \in MidSegments(pl_swr, pl_q) :
              pl_swr_out = Mean(pl_swr.y[i], pl_swr.y[i + 1])

\* C18, amended: interp is the reference function on the sorted table, the
\* line being taken on the first segment that brackets the query and
\* evaluated in floating point; a query exactly halfway between two adjacent
\* knots returns y0 + 0.5 * (y1 - y0) so evaluated, which is the arithmetic
\* mean of the two y values whenever y1 - y0 is a float
Thm_C18 ==
    Asked =>
        /\ pl_swr_out = RefInterp(pl_swr, pl_q)
        /\ \A i \in MidSegments(pl_swr, pl_q) :
              LET y0 == pl_swr.y[i]
                  y1 == pl_swr.y[i + 1]
              IN  /\ pl_swr_out = FAdd(y0, FMul(Half, FSub(y1, y0)))
                  /\ ExactDiff(y1, y0) => pl_swr_out = Mean(y0, y1)

\* a query halfway between two adjacent knots whose y values differ and have
\* a difference that is a float
Wit_C18 ==
    /\ Asked
    /\ \E i \in MidSegments(pl_swr, pl_q) :
          /\ pl_swr.y[i] # pl_swr.y[i + 1]
          /\ ExactDiff(pl_swr.y[i + 1], pl_swr.y[i])
          /\ pl_swr_out = Mean(pl_swr.y[i], pl_swr.y[i + 1])

\* the degenerate segments of the sorted table that lie at the query
DegenerateAt(tab, xq) ==
    {i \in 1..(Len(tab.x) - 1) : tab.x[i] = tab.x[i + 1] /\ tab.x[i] = xq}

\* C19: for a query at the x of a degenerate segment interp returns y0, the
\* y of the first point of that segment, wherever the segment lies
CE_C19 ==
    Asked => \A i \in DegenerateAt(pl_swr, pl_q) : pl_swr_out = pl_swr.y[i]

\* C19, amended: for a query at the x of a degenerate segment interp returns
\* the first point's y if that x is the smallest x, the last point's y if it
\* is the largest x, and otherwise yp + 1 * (yf - yp) in floating point, for
\* the first point f with that x and the point p before it (yf whenever
\* yf - yp is a float); the branch x1 == x0 is not taken and thermistor's
\* interp returns the same value
Thm_C19 ==
    (Asked /\ DegenerateAt(pl_swr, pl_q) # {}) =>
        LET n == Len(pl_swr.x)
            f == CHOOSE i \in 1..n :
                    /\ pl_swr.x[i] = pl_q
                    /\ \A j \in 1..(i - 1) : pl_swr.x[j] # pl_q
        IN  /\ ~SwrTakesGuard(pl_swr, pl_q)
            /\ pl_therm_out = pl_swr_out
            /\ IF f = 1 THEN pl_swr_out = pl_swr.y[1]
               ELSE IF pl_swr.x[n] = pl_q THEN pl_swr_out = pl_swr.y[n]
               ELSE LET yf == pl_swr.y[f]
                        yp == pl_swr.y[f - 1]
                    IN  /\ pl_swr_out =
                              FAdd(yp, FMul(FromInt(1), FSub(yf, yp)))
                        /\ ExactDiff(yf, yp) => pl_swr_out = yf

\* a query at the x of a degenerate last segment whose two y values differ:
\* the last point's y is returned, not y0
Wit_C19 ==
    /\ Asked
    /\ Len(pl_swr.x) - 1 \in DegenerateAt(pl_swr, pl_q)
    /\ pl_swr.x[1] # pl_q
    /\ pl_swr.y[Len(pl_swr.x) - 1] # pl_swr.y[Len(pl_swr.x)]
    /\ pl_swr_out = pl_swr.y[Len(pl_swr.x)]

----------------------------------------------------------------------------
(* Properties of the two PiecewiseLinear classes side by side *)

\* C20: both constructors accept the lists or both reject them, they are
\* accepted only with equal lengths of at least 2 and then give the same
\* sorted table; on every query both interp return the same value, and the
\* thermistor one, which has no branch for x1 == x0, raises no
\* ZeroDivisionError
Thm_C20 ==
    /\ pl_swr.ok <=> pl_therm.ok
    /\ pl_swr.ok => (Len(pl_x) = Len(pl_y) /\ Len(pl_x) >= 2)
    /\ pl_swr = pl_therm
    /\ Asked =>
          /\ pl_therm_out # ZeroDivisionError
          /\ pl_therm_out = pl_swr_out

\* both classes asked at an x that two points have, strictly inside the table
Wit_C20 ==
    /\ Asked
    /\ DegenerateAt(pl_therm, pl_q) # {}
    /\ pl_therm.x[1] # pl_q
    /\ pl_therm.x[Len(pl_therm.x)] # pl_q
    /\ pl_therm_out = pl_swr_out

----------------------------------------------------------------------------
(* Properties of swr_from_powers *)

\* swr_from_powers has been called
SwrCalled == sw_pfwd # NoFloat

\* (1 + gamma) / (1 - gamma) with gamma = sqrt(max(prfl_w, 0) / pfwd_w),
\* every operation in floating point
SwrFormula(pfwd_w, prfl_w) ==
    LET top   == IF FLe(prfl_w, FromInt(0)) THEN FromInt(0) ELSE prfl_w
        gamma == FSqrt(FDiv(top, pfwd_w))
    IN  FDiv(FAdd(FromInt(1), gamma), FSub(FromInt(1), gamma))

\* C21: swr_from_powers never raises; it returns infinity exactly when
\* pfwd_w <= 0 or prfl_w >= pfwd_w; otherwise it returns a finite value
\* >= 1 that equals (1 + gamma) / (1 - gamma), and 1 when prfl_w <= 0
Thm_C21 ==
    SwrCalled =>
        /\ ~Raised(sw_out)
        /\ sw_out = Inf <=> (FLe(sw_pfwd, FromInt(0)) \/ FLe(sw_pfwd, sw_prfl))
        /\ (FLt(FromInt(0), sw_pfwd) /\ FLt(sw_prfl, sw_pfwd)) =>
              /\ sw_out # Inf
              /\ FLe(FromInt(1), sw_out)
              /\ sw_out = SwrFormula(sw_pfwd, sw_prfl)
              /\ FLe(sw_prfl, FromInt(0)) => sw_out = FromInt(1)

\* a call with 0 < prfl_w < pfwd_w that returned a finite value above 1
Wit_C21 ==
    /\ SwrCalled
    /\ FLt(FromInt(0), sw_prfl)
    /\ FLt(sw_prfl, sw_pfwd)
    /\ sw_out # Inf
    /\ ~Raised(sw_out)
    /\ FLt(FromInt(1), sw_out)

----------------------------------------------------------------------------
(* Properties of SWRCalc.read_avg_volts *)

\* read_avg_volts has been called with a rate code of _DR_SPS
AvgCalled == av_rate \in DOMAIN DR_SPS

\* round(n / d) for integers n and d > 0: the nearest integer, a half goes
\* to the even one
RoundOfQuotient(n, d) ==
    LET q == n \div d
        r == n % d
    IN  IF 2 * r > d \/ (2 * r = d /\ q % 2 = 1) THEN q + 1 ELSE q

\* C22 as stated: the count is round(rate * window_ms / 1000) raised to 1,
\* and it is the number of reads of either channel and the count reported
CE_C22 ==
    AvgCalled =>
        LET n == RoundOfQuotient(DR_SPS[av_rate] * av_window, 1000)
            c == IF n < 1 THEN 1 ELSE n
        IN  /\ av_reads = [fwd |-> c, rfl |-> c]
            /\ av_out[3] = c

\* C22: the count is rate * window_ms / 1000 without its fraction, raised
\* to a minimum of 1; the call reads either channel that many times and
\* reports that count
Thm_C22 ==
    AvgCalled =>
        LET n == DR_SPS[av_rate] * av_window
            t == IF n >= 0 THEN n \div 1000 ELSE 0
            c == IF t < 1 THEN 1 ELSE t
        IN  /\ av_reads = [fwd |-> c, rfl |-> c]
            /\ av_out[3] = c

\* a call whose quotient has a fraction of a half or more: 128 samples per
\* second over 100 ms gives 12 reads where rounding would give 13
Wit_C22 ==
    /\ AvgCalled
    /\ (DR_SPS[av_rate] * av_window) % 1000 >= 500
    /\ av_reads.fwd >= 2
    /\ av_out[3] = av_reads.fwd

----------------------------------------------------------------------------
(* Properties of the calibration loaders *)

\* the loaders have read the files
Loaded == ld_curve_out # NotLoaded

\* C23 as stated: with blank lines and comment lines inserted anywhere, both
\* loaders give the control points they give for the file as first written
CE_C23 ==
    Loaded =>
        /\ ld_curve_out = load_v_to_w_curve(ld_curve)
        /\ ld_two_out = load_two_row_table(ld_two)

----------------------------------------------------------------------------
(* Properties of the BandSwitch outputs *)

\* the outputs that are ON: at the level _drive_pin writes for on=True
OnSet(pins) == {i \in 1..Len(pins) : pins = drive_pin(pins, i, TRUE)}

\* no list of pin levels written by the latest call has two outputs ON
OneHotTrace == \A k \in 1..Len(bo_trace) : Cardinality(OnSet(bo_trace[k])) <= 1

\* C24 as stated: after construction and after every update or set_index
\* exactly one output is ON, the one of the index, and no pin state inside
\* _apply_outputs has two outputs ON
CE_C24 ==
    bo_call \in {"init", "update", "set_index"} =>
        /\ OnSet(bo_pins) = {bo_self.index + 1}
        /\ OneHotTrace

\* C24: no pin state has two outputs ON and no output but the one of the
\* index is ON; exactly that one is ON after construction, after set_index
\* and after an update that saw a press event; an update that saw none
\* leaves the pins as they were, all OFF when all_off ran since the outputs
\* were last applied
Thm_C24 ==
    bo_call # "none" =>
        /\ OneHotTrace
        /\ OnSet(bo_pins) \subseteq {bo_self.index + 1}
        /\ (bo_call \in {"init", "set_index"} \/ bo_event)
              => OnSet(bo_pins) = {bo_self.index + 1}
        /\ (bo_call = "update" /\ ~bo_event) => bo_trace = <<>>
        /\ OnSet(bo_pins) = IF bo_off THEN {} ELSE {bo_self.index + 1}

\* an update that saw a press event after all_off: every output was OFF
\* through the writes but the last, which put the next band's output ON
Wit_C24 ==
    /\ bo_call = "update"
    /\ bo_event
    /\ bo_calls >= 3
    /\ Len(bo_trace) = NumBands + 1
    /\ \A k \in 1..NumBands : OnSet(bo_trace[k]) = {}
    /\ OnSet(bo_pins) = {bo_self.index + 1}

\* the relays that are energised with the shipped hardware: LOW = relay ON
Energised(pins) ==
    {i \in 1..Len(pins) : pins[i] = (IF BandConfig.BAND_ACTIVE_LOW THEN 0 ELSE 1)}

\* C25 as stated: with the shipped configuration the selected band's pin
\* is LOW and every other band pin is HIGH, so only the selected relay is
\* energised
CE_C25 ==
    (bo_call \in {"init", "set_index"} \/ bo_event) =>
        /\ \A i \in 1..NumBands :
              bo_pins[i] = (IF i = bo_self.index + 1 THEN 0 ELSE 1)
        /\ Energised(bo_pins) = {bo_self.index + 1}

----------------------------------------------------------------------------
(* Properties of Keyer *)

\* is_active() changed in the latest update
KeyChanged == ky_call = "update" /\ is_active(ky_self) # ky_was

\* C26: is_active() is False after construction and changes only in an
\* update that reads the level of the call before it, unchanged for at
\* least debounce_ms, and then becomes the activeness of that level; update
\* returns True exactly when is_active() changes, and the callback is called
\* once per change with the new state, also when it raises
Thm_C26 ==
    /\ ky_call = "init" => ~is_active(ky_self)
    /\ ky_call = "update" =>
          /\ KeyChanged =>
                /\ ky_level = ky_prev
                /\ ky_held >= ky_self.debounce_ms
                /\ is_active(ky_self) = is_active_level(ky_self, ky_level)
          /\ ky_ret <=> KeyChanged
          /\ ky_cb = IF KeyChanged /\ ky_self.callback # "none"
                     THEN <<is_active(ky_self)>> ELSE <<>>

\* an update that changed is_active() back to False and called a callback
\* that raises
Wit_C26 ==
    /\ KeyChanged
    /\ ky_ret
    /\ ~is_active(ky_self)
    /\ ky_self.callback = "raises"
    /\ ky_cb = <<FALSE>>

----------------------------------------------------------------------------
(* Properties of Protection *)

\* C27 as stated: an update that begins tripped returns shutdown=True with
\* the reason latched at trip time, and it clears the latch only when reset
\* has been asserted on every update for RESET_DEBOUNCE_MS or longer
CE_C27 ==
    (pr_calls > 0 /\ pr_was) =>
        /\ pr_ret = <<TRUE, pr_latched>>
        /\ ~pr_self.tripped =>
              (pr_held # None /\ pr_held >= RESET_DEBOUNCE_MS)

----------------------------------------------------------------------------
(* C28: the protection output in the main loop *)

\* the passes' positions
InPass == mn_pc \in {"driven", "fast", "rf", "thermal", "raised"}

\* the pin level that disables the amplifier under the configured polarity
AssertedLevel == IF PROTECT_ACTIVE_HIGH THEN 1 ELSE 0

ReleasedLevel == IF PROTECT_ACTIVE_HIGH THEN 0 ELSE 1

----------------------------------------------------------------------------
(* C29: the latch and the enable flag *)

\* C29: every update ends with amp_enabled false when tripped is true; an
\* update that sets the latch, or that begins with the latch set, ends with
\* amp_enabled false whether or not it has a press event
Thm_C29 ==
    [][ /\ ctrl'.tripped => ~ctrl'.amp_enabled
        /\ (ctrl.tripped \/ latched' # "none") => ~ctrl'.amp_enabled ]_vars

\* the third update latches an electrical fault, the second one's press
\* event having enabled the amplifier
Wit_C29 ==
    /\ nupdates = 3
    /\ npresses = 1
    /\ press_action = "none"
    /\ latched = "fast"
    /\ ctrl.tripped
    /\ ~ctrl.amp_enabled

----------------------------------------------------------------------------
(* C30: no safe decision while a fault has persisted *)

\* a condition has held for its debounce time on every update
Persisted ==
    \/ (ho_fault # None /\ ho_fault >= PROTECT_TRIP_DEBOUNCE_MS)
    \/ (ho_therm # None /\ ho_therm >= PROTECT_THERM_DEBOUNCE_MS)

\* C30: no update returns disable = FALSE when the electrical fault
\* condition has held on it and on every update before it over at least
\* PROTECT_TRIP_DEBOUNCE_MS, or overtemp over at least
\* PROTECT_THERM_DEBOUNCE_MS
CE_C30 == (ho_calls > 0 /\ Persisted) => ho_decision.disable

----------------------------------------------------------------------------
(* C31: one fast debounce timer for the three electrical fault kinds *)

ElectricalKinds == {"VDRAIN_OV", "IDRAIN_OC", "FWD_LOW_VS_VI"}

\* the latest update began not tripped with the timer set and evaluated an
\* electrical fault
TimerMetFault ==
    /\ sh_calls > 0
    /\ ~sh_was
    /\ sh_start # None
    /\ sh_kind \in ElectricalKinds

\* C31: an update that begins not tripped with the fast timer set and
\* evaluates an electrical fault, of the kind of the update before or of
\* another, leaves the timer as it was unless a latch is set in it; step 1
\* sets the latch exactly when the debounce time has passed since the
\* timer's stamp, whatever kinds were evaluated meanwhile, and stores the
\* kind evaluated in this update, which the update returns unless a press
\* event of the same update clears the latch
Thm_C31 ==
    TimerMetFault =>
        /\ sh_latched = "none" => sh_ctrl.fault_start_ms = sh_start
        /\ sh_latched = "fast"
              <=> ticks_diff(sh_now, sh_start) >= PROTECT_TRIP_DEBOUNCE_MS
        /\ sh_latched = "fast" => sh_stored = sh_kind
        /\ (sh_latched = "fast" /\ ~sh_event)
              => /\ sh_ctrl.last_reason = sh_kind
                 /\ sh_decision.reason = sh_kind

\* a latch is set in the first update that evaluates its kind, the update
\* before having evaluated another electrical kind
Wit_C31 ==
    /\ TimerMetFault
    /\ sh_latched = "fast"
    /\ sh_prev \in ElectricalKinds
    /\ sh_prev # sh_kind
    /\ sh_decision.tripped
    /\ sh_decision.reason = sh_kind

----------------------------------------------------------------------------
(* C32: the electrical latch comes before the thermal one *)

\* the latest update began not tripped and met both latch conditions
BothMet ==
    /\ TimerMetFault
    /\ ticks_diff(sh_now, sh_start) >= PROTECT_TRIP_DEBOUNCE_MS
    /\ sh_hot
    /\ sh_tstart # None
    /\ ticks_diff(sh_now, sh_tstart) >= PROTECT_THERM_DEBOUNCE_MS

----------------------------------------------------------------------------
(* C33: a fault that holds is latched in the end *)

\* the latest decision has tripped and disable
TrippedDecision == lv_decision.tripped /\ lv_decision.disable

\* C33: from the first update on from which every update evaluates an
\* electrical fault and has no press event, the timestamps advancing, a
\* decision with tripped is reached; every update made when the fault has
\* held for PROTECT_TRIP_DEBOUNCE_MS or more returns tripped and disable,
\* and so does every update after one that did
Thm_C33 ==
    /\ lv_held ~> (lv_held /\ TrippedDecision)
    /\ []((lv_held /\ lv_span >= PROTECT_TRIP_DEBOUNCE_MS) => TrippedDecision)
    /\ [](lv_after > 0 => TrippedDecision)

\* the fault began to hold on an object not tripped, which then set the
\* latch and stayed tripped over the updates that followed
Wit_C33 ==
    /\ lv_held
    /\ lv_latches = 1
    /\ lv_after = MaxAfter
    /\ lv_span = PROTECT_TRIP_DEBOUNCE_MS
    /\ TrippedDecision

----------------------------------------------------------------------------
(* C34: interp and the range of the table's y values *)

\* v lies between a and b, in either order
Between(v, a, b) ==
    \/ FLe(a, v) /\ FLe(v, b)
    \/ FLe(b, v) /\ FLe(v, a)

\* v lies between the smallest and the largest y of the table
InRange(tab, v) ==
    /\ \E i \in 1..Len(tab.y) : FLe(tab.y[i], v)
    /\ \E i \in 1..Len(tab.y) : FLe(v, tab.y[i])

\* the query lies strictly inside the table
Inside(tab, xq) == ~FLe(xq, tab.x[1]) /\ ~FLe(tab.x[Len(tab.x)], xq)

\* the first segment of the sorted table that brackets the query
FirstBracket(tab, xq) ==
    CHOOSE i \in 1..(Len(tab.x) - 1) :
        /\ Brackets(tab, i, xq)
        /\ \A j \in 1..(i - 1) : ~Brackets(tab, j, xq)

\* v is returned for xq without overshoot
NoOvershoot(tab, xq, v) ==
    /\ InRange(tab, v)
    /\ Inside(tab, xq) =>
          LET i == FirstBracket(tab, xq)
          IN  Between(v, tab.y[i], tab.y[i + 1])

\* C34: what interp returns lies between the smallest and the largest y of
\* the table and, for a query strictly inside the table, between the y
\* values of the two points that bracket it
CE_C34 ==
    Asked =>
        /\ NoOvershoot(pl_swr, pl_q, pl_swr_out)
        /\ NoOvershoot(pl_therm, pl_q, pl_therm_out)

\* v is returned for xq: an end's y when the query is clamped, otherwise a
\* value between y0 and y0 + (y1 - y0) as evaluated in floating point on
\* the first bracketing segment
RoundedBetween(tab, xq, v) ==
    IF FLe(xq, tab.x[1]) THEN v = tab.y[1]
    ELSE IF FLe(tab.x[Len(tab.x)], xq) THEN v = tab.y[Len(tab.y)]
    ELSE LET i  == FirstBracket(tab, xq)
             y0 == tab.y[i]
             y1 == tab.y[i + 1]
         IN  /\ Between(v, y0, FAdd(y0, FSub(y1, y0)))
             /\ ExactDiff(y1, y0) => Between(v, y0, y1)

\* C34, amended: a clamped query returns the first or the last y of the
\* sorted table; a query strictly inside returns a value between y0 and
\* y0 + (y1 - y0) evaluated in floating point, y0 and y1 being the y of the
\* first bracketing segment, hence between y0 and y1 whenever y1 - y0 is a
\* float
Thm_C34 ==
    Asked =>
        /\ RoundedBetween(pl_swr, pl_q, pl_swr_out)
        /\ RoundedBetween(pl_therm, pl_q, pl_therm_out)

\* a query strictly inside the table returns a value below every y of the
\* table or above every y of it
Wit_C34 ==
    /\ Asked
    /\ Inside(pl_swr, pl_q)
    /\ ~InRange(pl_swr, pl_swr_out)
    /\ ~InRange(pl_therm, pl_therm_out)
    /\ pl_therm_out = pl_swr_out

====
